---- MODULE Spec2Model ----
(***************************************************************************)
(* Model of the transfer queue of cloudzilla: TransferQueueManager         *)
(* (packages/gui/src/main/services/TransferQueueManager.ts), the durable   *)
(* TransferStore (packages/gui/src/main/store/TransferStore.ts) and the    *)
(* subprocess bookkeeping of RcloneService.                                *)
(*                                                                         *)
(* One action is one handler of the single-threaded event loop: an IPC     *)
(* request (addTask, cancelTask, ...) or a subprocess event (progress      *)
(* record, exit).  A handler runs to completion, nested processQueue calls *)
(* included, so it is one atomic step.                                     *)
(***************************************************************************)
EXTENDS Integers, Sequences, FiniteSets, TLC

(***************************************************************************)
(* Bounds of the model                                                     *)
(***************************************************************************)
\* number of task ids uuidv4() hands out in one behaviour of Spec
MaxTasks == 2
\* number of task ids uuidv4() hands out in one behaviour of SpecLineage
MaxLineageTasks == 3
\* largest limit passed to a successful setMaxConcurrent
MaxConcurrentInput == 2
\* largest configured retryAttempts
MaxRetryAttempts == 1
\* largest byte count in a progress record
MaxBytes == 3
\* TransferStore.addTask calls made on a store that is nearly full
MaxStoreAdds == 3
\* largest timestamp of a record handed to addTask
MaxStamp == 3
\* free places in that store before the first call
MaxStoreHeadroom == 1
\* log entries appended to a log buffer that is nearly full
MaxLogAdds == 3
\* free places in that buffer before the first entry is appended
MaxLogHeadroom == 1
\* most entries one addLogs call appends
MaxLogBatch == 2
\* error messages a parser collects before it is reset
MaxErrorMessages == 1
MaxOutput == 4

(***************************************************************************)
(* Program constants                                                       *)
(***************************************************************************)
MIN_CONCURRENT == 1
MAX_CONCURRENT == 10
DEFAULT_RETRIES == 3
MAX_TASKS == 1000
MAX_LOGS == 500
PERCENT_CAP == 99

TaskIds == 1..(IF MaxTasks > MaxLineageTasks THEN MaxTasks ELSE MaxLineageTasks)
\* 'copy' runs the external tool; 'sync' is a type executeTask does not support
TaskTypes == {"copy", "sync"}

\* the types executeTask tells apart; "sync" stands for every other type
AllTaskTypes == {"copy", "move", "delete", "sync"}

\* task.source.type
SourceTypes == {"local", "remote"}
\* values offered to setMaxConcurrent: below, inside and above the range
ConcurrentInputs == {MIN_CONCURRENT - 1} \cup (MIN_CONCURRENT..MaxConcurrentInput) \cup {MAX_CONCURRENT + 1}
\* progress records <<bytes, totalBytes>> subprocesses emit: totalBytes = 0,
\* bytes = totalBytes and bytes > totalBytes
ProgressInputs == {<<1, 0>>, <<MaxBytes - 1, MaxBytes - 1>>, <<MaxBytes, MaxBytes - 1>>}

VARIABLES
    queue,            \* TransferQueueManager.queue: the live queue
    store,            \* TransferStore: the 'tasks' array of the history file
    maxConcurrent,    \* TransferQueueManager.maxConcurrent
    isPaused,         \* TransferQueueManager.isPaused
    autoRetry,        \* AppConfig.autoRetry
    retryAttempts,    \* AppConfig.retryAttempts
    nextId,           \* the next id uuidv4() returns
    idLimit,          \* the number of ids handed out in this behaviour
    procs,            \* subprocesses alive: task id -> number of processes
    fsOps,            \* task ids with a local fs delete in flight
    activeProcesses,  \* RcloneService.activeProcesses: ids with a tracked process
    cfgMaxConcurrent, \* AppConfig.maxConcurrentTransfers as ConfigManager holds it
    logs,             \* TransferStore.logs, the in-memory log buffer: the store's
                      \* log operations are followed in SpecLogs; of the manager's
                      \* addLog the other specifications keep the broadcast in out
    storeFault,       \* whether taskStore.set raises: "no", "once" (the next
                      \* write only) or "always"
    target,           \* TransferBroadcaster.mainWindow, by its state
    pipe,             \* an output stream of a subprocess: what it wrote, what
                      \* of it waits to be delivered and the callbacks invoked
    parser,           \* a RcloneOutputParser: errorMessages, lastProgress and the
                      \* callbacks its last processLine call invoked
    out               \* what the last handler emitted: broadcasts and signals

vars == <<queue, store, maxConcurrent, isPaused, autoRetry, retryAttempts,
          nextId, idLimit, procs, fsOps, activeProcesses, cfgMaxConcurrent, logs, storeFault,
          target, pipe, parser, out>>

(***************************************************************************)
(* RcloneOutputParser                                                      *)
(***************************************************************************)
\* what the stats, level and msg fields of a JSON object can hold: nothing,
\* a falsy value, a number, the strings 'error' and 'info', an object
StatsValues == {"absent", "zero", "number", "object"}
LevelValues == {"absent", "zero", "number", "error", "info"}
MsgValues == {"absent", "zero", "info"}

Truthy(v) == v \notin {"absent", "zero"}

IsString(v) == v \in {"error", "info"}

\* a line of output by what JSON.parse makes of it; for a JSON object, what
\* its stats, level and msg fields hold
OtherLine(kind) == [kind |-> kind, stats |-> "absent", level |-> "absent", msg |-> "absent"]

Lines ==
    {OtherLine(kind) : kind \in {"blank", "notjson", "null", "number", "string", "array"}}
        \cup {[kind |-> "object", stats |-> s, level |-> l, msg |-> g] :
                  s \in StatsValues, l \in LevelValues, g \in MsgValues}

Sources == {"stdout", "stderr"}

\* constructor() and reset()
NewParser == [errorMessages |-> <<>>, lastProgress |-> "absent"]

TextLine(p, rawText) ==
    [parser |-> p, type |-> "text", rawText |-> <<rawText>>, stats |-> "absent",
     logLevel |-> "absent", logMessage |-> <<>>, calls |-> {},
     raised |-> FALSE, threw |-> FALSE]

\* an exception raised inside the try block of parseLine
Raised(p) == [TextLine(p, OtherLine("blank")) EXCEPT !.rawText = <<>>, !.raised = TRUE]

\* an entry of errorMessages: the msg field of a record, or a whole line
MsgOf(line) == [text |-> "msg", line |-> line]

RawTextOf(line) == [text |-> "line", line |-> line]

\* an error list that takes the message of every log record
AnyLevel(level) == TRUE

\* json.level === 'error'
IsErrorLevel(level) == level = "error"

\* the try block of parseLine
parseJson(p, line) ==
    IF line.kind = "notjson" THEN Raised(p)            \* JSON.parse throws
    ELSE IF line.kind = "null" THEN Raised(p)          \* json.stats of null
    ELSE IF Truthy(line.stats)
    THEN [TextLine([p EXCEPT !.lastProgress = line.stats], line)
              EXCEPT !.type = "stats", !.rawText = <<>>, !.stats = line.stats]
    ELSE IF Truthy(line.level) /\ Truthy(line.msg)
    THEN IF ~IsString(line.level) THEN Raised(p)       \* json.level.toUpperCase
         ELSE [TextLine(IF IsErrorLevel(line.level)
                        THEN [p EXCEPT !.errorMessages = Append(@, MsgOf(line))]
                        ELSE p,
                        line)
                   EXCEPT !.type = "log", !.rawText = <<>>, !.logLevel = line.level,
                          !.logMessage = <<line>>]
    ELSE TextLine(p, line)

\* a parseLine without the catch: what is raised escapes
CatchNothing(p, line, r) == IF r.raised THEN [r EXCEPT !.threw = TRUE] ELSE r

\* catch (e) { return { type: 'text', rawText: line } }
Catch(p, line, r) == IF r.raised THEN TextLine(p, line) ELSE r

parseLine(p, line) ==
    IF line.kind = "blank" THEN [TextLine(p, line) EXCEPT !.rawText = <<>>]   \* rawText: ''
    ELSE Catch(p, line, parseJson(p, line))

\* a callback processLine invokes, by its option name and what it is given
Call(r, name, line) == [r EXCEPT !.calls = @ \cup {[name |-> name, line |-> line]}]

\* processLine with all the callbacks of CopyOptions set; the result keeps
\* the parsed line, the callbacks invoked and whether the call raised
processLine(p, line, source) ==
    LET parsed == parseLine(p, line)
    IN IF parsed.threw THEN parsed
       ELSE IF parsed.type = "stats" THEN Call(parsed, "onProgress", line)
       ELSE IF parsed.type = "log"
       THEN LET r1 == Call(parsed, IF source = "stdout" THEN "onStdout" ELSE "onStderr", line)
            IN IF parsed.logLevel = "error" THEN Call(r1, "onError", line) ELSE r1
       ELSE IF parsed.rawText = <<>> THEN parsed
       ELSE IF source = "stdout" THEN Call(parsed, "onStdout", line)
       ELSE Call([parsed EXCEPT !.parser.errorMessages = Append(@, RawTextOf(line))],
                 "onStderr", line)

\* the characters of an output stream: the newline, the two halves of a
\* progress record and of an error log record (neither half is JSON by
\* itself, nor is any other run of halves)
Newline == "nl"

StreamChars == {Newline, "stats1", "stats2", "error1", "error2"}

Outputs == UNION {[1..n -> StreamChars] : n \in 0..MaxOutput}

\* data.toString().split('\n')
RECURSIVE split(_)
split(data) ==
    IF \A i \in 1..Len(data) : data[i] # Newline THEN <<data>>
    ELSE LET i == CHOOSE i \in 1..Len(data) :
                      data[i] = Newline /\ \A j \in 1..(i - 1) : data[j] # Newline
         IN <<SubSeq(data, 1, i - 1)>> \o split(SubSeq(data, i + 1, Len(data)))

\* what JSON.parse makes of the text of a line
LineOf(text) ==
    IF text = <<>> THEN OtherLine("blank")
    ELSE IF text = <<"stats1", "stats2">>
    THEN [kind |-> "object", stats |-> "object", level |-> "absent", msg |-> "absent"]
    ELSE IF text = <<"error1", "error2">>
    THEN [kind |-> "object", stats |-> "absent", level |-> "error", msg |-> "info"]
    ELSE OtherLine("notjson")

\* a stream nothing was written to
NoPipe == [source |-> "stdout", written |-> <<>>, pending |-> <<>>, events |-> <<>>]

\* for (const line of lines) this.processLine(line, source, options), with
\* the callbacks invoked, in order, added to events
RECURSIVE processLines(_, _, _, _)
processLines(p, events, lines, source) ==
    IF lines = <<>> THEN [parser |-> p, events |-> events]
    ELSE LET r == processLine(p, LineOf(Head(lines)), source)
         IN processLines(r.parser,
                         IF r.calls = {} THEN events ELSE Append(events, r.calls),
                         Tail(lines), source)

\* processData(data, source, options) on a parser, after the callbacks in events
processData(p, events, data, source) == processLines(p, events, split(data), source)

(***************************************************************************)
(* Helpers on sequences of tasks                                           *)
(***************************************************************************)
Min(a, b) == IF a < b THEN a ELSE b

Ids(ts) == {ts[i].id : i \in 1..Len(ts)}

ByStatus(ts, s) == SelectSeq(ts, LAMBDA t : t.status = s)

WithoutId(ts, id) == SelectSeq(ts, LAMBDA t : t.id # id)

\* Array.prototype.find(t => t.id === id); used only when id is present
Find(ts, id) == ts[CHOOSE i \in 1..Len(ts) : ts[i].id = id /\ \A j \in 1..(i - 1) : ts[j].id # id]

\* in-place mutation of the task object that sits in the array
Update(ts, id, t) == [i \in 1..Len(ts) |-> IF ts[i].id = id THEN t ELSE ts[i]]

CountStatus(ts, s) == Len(ByStatus(ts, s))

(***************************************************************************)
(* Emitted events                                                          *)
(***************************************************************************)
TaskUpdate(t) == [kind |-> "task-update", id |-> t.id, status |-> t.status, percentage |-> t.percentage]

ProgressUpdate(t) == [kind |-> "progress-update", id |-> t.id, status |-> t.status, percentage |-> t.percentage]

\* the transferring-update broadcast: the files rclone reports in transfer
TransferringUpdate(t) == [kind |-> "transferring-update", id |-> t.id, status |-> t.status, percentage |-> t.percentage]

Signal(id) == [kind |-> "signal", id |-> id, status |-> "SIGTERM", percentage |-> 0]

\* the taskId of a log entry written without one
NoTask == 0

\* a log entry as addLog builds it and notifyLogUpdate sends it: its type in
\* the status field, its taskId in the id field
LogUpdate(type, taskId) == [kind |-> "log", id |-> taskId, status |-> type, percentage |-> 0]

(***************************************************************************)
(* TransferStore                                                           *)
(***************************************************************************)
RECURSIVE InsertByKey(_, _)
\* insertion of t into a list sorted by completedAt || createdAt, after equal keys
InsertByKey(sorted, t) ==
    LET Key(x) == IF x.completedAt # 0 THEN x.completedAt ELSE x.createdAt
    IN IF sorted = <<>> THEN <<t>>
       ELSE IF Key(Head(sorted)) <= Key(t)
            THEN <<Head(sorted)>> \o InsertByKey(Tail(sorted), t)
            ELSE <<t>> \o sorted

\* a sort that leaves the order of arrival
KeepOrder(ts) == ts

RECURSIVE SortByKey(_)
\* Array.prototype.sort with the comparator of cleanupTasks (stable)
SortByKey(ts) ==
    IF ts = <<>> THEN <<>>
    ELSE InsertByKey(SortByKey(SubSeq(ts, 1, Len(ts) - 1)), ts[Len(ts)])

\* Array.prototype.slice(-n)
SliceLast(ts, n) ==
    IF n = 0 THEN ts
    ELSE IF n >= Len(ts) THEN ts
    ELSE IF n < 0 THEN SubSeq(ts, Min(-n, Len(ts)) + 1, Len(ts))
    ELSE SubSeq(ts, Len(ts) - n + 1, Len(ts))

cleanupTasks(tasks) ==
    IF Len(tasks) <= MAX_TASKS THEN tasks
    ELSE LET activeTasks == SelectSeq(tasks, LAMBDA t : t.status = "running" \/ t.status = "queued")
             inactiveTasks == SortByKey(SelectSeq(tasks, LAMBDA t : t.status # "running" /\ t.status # "queued"))
             maxInactive == MAX_TASKS - Len(activeTasks)
         IN activeTasks \o SliceLast(inactiveTasks, maxInactive)

\* a lost write: the store keeps what it had
StoreAddTaskLost(tasks, task) == cleanupTasks(tasks)

StoreAddTask(tasks, task) == cleanupTasks(Append(tasks, task))

\* an overflow that drops the newest entries instead of the oldest
cleanupLogsNewestDropped(ls) == IF Len(ls) <= MAX_LOGS THEN ls ELSE SubSeq(ls, 1, MAX_LOGS)

\* this.logs.splice(0, removeCount)
cleanupLogs(ls) ==
    IF Len(ls) <= MAX_LOGS THEN ls
    ELSE LET removeCount == Len(ls) - MAX_LOGS
         IN SubSeq(ls, removeCount + 1, Len(ls))

StoreAddLog(ls, log) == cleanupLogs(Append(ls, log))

StoreAddLogs(ls, newLogs) == cleanupLogs(ls \o newLogs)

StoreClearAllLogs(ls) == <<>>

StoreClearLogsByTask(ls, taskId) == SelectSeq(ls, LAMBDA l : l.taskId # taskId)

StoreHas(tasks, id) == id \in Ids(tasks)

StoreDeleteTask(tasks, id) == WithoutId(tasks, id)

\* Date.now() at a terminal transition.  The clock is monotone and the code
\* only ever compares timestamps (the sort of cleanupTasks), so the model
\* keeps their order: the first instant later than every stored completedAt
Now(m) ==
    LET stamps == {m.store[i].completedAt : i \in 1..Len(m.store)}
    IN IF stamps = {} THEN 1 ELSE 1 + (CHOOSE x \in stamps : \A y \in stamps : y <= x)

(***************************************************************************)
(* Configuration as the manager reads it                                   *)
(***************************************************************************)
\* config.retryAttempts || 3
MaxRetries(cfgRetryAttempts) == IF cfgRetryAttempts = 0 THEN DEFAULT_RETRIES ELSE cfgRetryAttempts

(***************************************************************************)
(* The manager's state gathered in one record, so that handlers that call  *)
(* one another can be written as operators from state to state.  threw is  *)
(* set when the handler ends by throwing to its caller, ovf when it asks   *)
(* for more ids than the model hands out.                                  *)
(***************************************************************************)
Cur ==
    [queue |-> queue, store |-> store, maxConcurrent |-> maxConcurrent,
     isPaused |-> isPaused, autoRetry |-> autoRetry, retryAttempts |-> retryAttempts,
     nextId |-> nextId, idLimit |-> idLimit, procs |-> procs,
     fsOps |-> fsOps, activeProcesses |-> activeProcesses, cfgMaxConcurrent |-> cfgMaxConcurrent,
     logs |-> logs, storeFault |-> storeFault,
     target |-> target, pipe |-> pipe, parser |-> parser, out |-> {},
     threw |-> FALSE, ovf |-> FALSE]

Commit(m) ==
    /\ ~m.ovf
    /\ queue' = m.queue
    /\ store' = m.store
    /\ maxConcurrent' = m.maxConcurrent
    /\ isPaused' = m.isPaused
    /\ autoRetry' = m.autoRetry
    /\ retryAttempts' = m.retryAttempts
    /\ nextId' = m.nextId
    /\ idLimit' = m.idLimit
    /\ procs' = m.procs
    /\ fsOps' = m.fsOps
    /\ activeProcesses' = m.activeProcesses
    /\ cfgMaxConcurrent' = m.cfgMaxConcurrent
    /\ logs' = m.logs
    /\ storeFault' = m.storeFault
    /\ target' = m.target
    /\ pipe' = m.pipe
    /\ parser' = m.parser
    /\ out' = m.out

Emit(m, e) == [m EXCEPT !.out = @ \cup {e}]

\* the states of the broadcast target: a live window, no window set, a
\* destroyed window, a window whose webContents.send raises
Targets == {"ready", "unset", "destroyed", "raises"}

\* TransferBroadcaster.isReady
isReady(t) == t # "unset" /\ t # "destroyed"

\* a send that lets the exception of webContents.send escape
sendUncaught(m, e) ==
    IF ~isReady(m.target) THEN m
    ELSE IF m.target = "raises" THEN [m EXCEPT !.threw = TRUE]
    ELSE Emit(m, e)

\* TransferBroadcaster.send: nothing when the window is not ready, and the
\* exception of webContents.send is caught
send(m, e) ==
    IF ~isReady(m.target) THEN m
    ELSE IF m.target = "raises" THEN m
    ELSE Emit(m, e)

\* the task-update and progress-update broadcasts among emitted events
Broadcasts(events) == {e \in events : e.kind \in {"task-update", "progress-update"}}

\* TransferBroadcaster.notifyTaskUpdate
notifyTaskUpdate(m, task) == send(m, TaskUpdate(task))

\* TransferBroadcaster.notifyProgressUpdate
notifyProgressUpdate(m, task) == send(m, ProgressUpdate(task))

\* TransferBroadcaster.notifyLogUpdate
notifyLogUpdate(m, log) == send(m, log)

\* TransferBroadcaster.notifyTransferringFiles: the sum over the files, then send
notifyTransferringFiles(m, task) == send(m, TransferringUpdate(task))

\* addLog(type, message, taskId): transferStore.addLog and notifyLogUpdate
addLog(m, type, taskId) == notifyLogUpdate(m, LogUpdate(type, taskId))

\* throw new Error(...) out of the handler
Throw(m) == [m EXCEPT !.threw = TRUE]

StoreFaults == {"no", "once", "always"}

\* transferStore.addTask is about to raise (taskStore.set fails)
WriteRaises(m) == m.storeFault # "no"

\* the exception of a failed store write leaves the handler
StoreRaise(m) == Throw([m EXCEPT !.storeFault = IF @ = "once" THEN "no" ELSE @])

\* a task as addTask builds it; createdAt is Date.now() at creation, kept as
\* the creation sequence number, which the id is
NewTask(id, type, source) ==
    [id |-> id, type |-> type, source |-> source, status |-> "queued", retryCount |-> 0,
     percentage |-> 0, error |-> "", createdAt |-> id, completedAt |-> 0,
     root |-> id]

\* a retry task that keeps the old retryCount
RetryOfSameCount(oldTask, id) ==
    [id |-> id, type |-> oldTask.type, source |-> oldTask.source, status |-> "queued",
     retryCount |-> oldTask.retryCount,
     percentage |-> 0, error |-> "", createdAt |-> id, completedAt |-> 0,
     root |-> oldTask.root]

\* the task retryTaskInternal and retryTask build from an old one
RetryOf(oldTask, id) ==
    [id |-> id, type |-> oldTask.type, source |-> oldTask.source, status |-> "queued",
     retryCount |-> oldTask.retryCount + 1,
     percentage |-> 0, error |-> "", createdAt |-> id, completedAt |-> 0,
     root |-> oldTask.root]

(***************************************************************************)
(* processQueue and what it calls                                          *)
(***************************************************************************)
\* a lookup that falls back to the store, as getTask does
QueueFindOrStored(m, taskId) ==
    IF taskId \in Ids(m.queue) THEN <<Find(m.queue, taskId)>>
    ELSE IF taskId \in Ids(m.store) THEN <<Find(m.store, taskId)>>
    ELSE <<>>

\* this.queue.find(t => t.id === taskId) of the event handlers: the task in
\* the live queue, <<>> when there is none
QueueFind(m, taskId) == IF taskId \in Ids(m.queue) THEN <<Find(m.queue, taskId)>> ELSE <<>>

\* a slot count that is one too many
AvailableSlotsOneMore(m) == m.maxConcurrent - CountStatus(m.queue, "running") + 1

\* a dispatch that keeps one slot back
AvailableSlotsOneLess(m) == m.maxConcurrent - CountStatus(m.queue, "running") - 1

AvailableSlots(m) == m.maxConcurrent - CountStatus(m.queue, "running")

\* the last queued tasks instead of the first: queuedTasks.slice(-availableSlots)
TasksToStartFromTail(queuedTasks, availableSlots) ==
    SubSeq(queuedTasks, Len(queuedTasks) - Min(availableSlots, Len(queuedTasks)) + 1, Len(queuedTasks))

\* queuedTasks.slice(0, availableSlots), availableSlots > 0
TasksToStart(queuedTasks, availableSlots) == SubSeq(queuedTasks, 1, Min(availableSlots, Len(queuedTasks)))

\* the auto-retry test of handleFailure
AutoRetryEligible(m, task) == m.autoRetry /\ task.retryCount < MaxRetries(m.retryAttempts)

\* executeTask hands the task to the external tool: copy/move, or any
\* non-delete type once retryCount > 0 (the isRetry branch is taken first)
RunsExternalTool(task) == task.type = "copy" \/ task.retryCount > 0

\* a branch choice that tests isRetry before the type
PrimitiveRetryFirst(task) ==
    IF task.retryCount > 0 THEN "retryTransfer"
    ELSE IF task.type = "delete"
    THEN IF task.source = "local" THEN "fs" ELSE "purge"
    ELSE IF task.type = "copy" THEN "copy"
    ELSE IF task.type = "move" THEN "move"
    ELSE "unsupported"

\* the branch executeTask takes for a task: the delete branch first (fs for a
\* local source, rclone purge or deleteFile for a remote one), then the
\* isRetry branch, then copy or move, else the Unsupported task type error
Primitive(task) ==
    IF task.type = "delete"
    THEN IF task.source = "local" THEN "fs" ELSE "purge"
    ELSE IF task.retryCount > 0 THEN "retryTransfer"
    ELSE IF task.type = "copy" THEN "copy"
    ELSE IF task.type = "move" THEN "move"
    ELSE "unsupported"

\* the call executeTask makes, as an event
Started(task, primitive) == [kind |-> "execute", id |-> task.id, status |-> primitive, percentage |-> 0]

\* spawn(...) in purge and deleteFile: the process is not put in activeProcesses
SpawnUntracked(m, id) == [m EXCEPT !.procs = [@ EXCEPT ![id] = @ + 1]]

\* spawn(...) and activeProcesses.set(taskId, process)
Spawn(m, id) ==
    [m EXCEPT !.procs = [@ EXCEPT ![id] = @ + 1],
              !.activeProcesses = @ \cup {id}]

\* a pause test that never holds
DispatchHeldNever(m) == FALSE

\* a failure handler that swallows the failure
handleFailureIgnored(m, taskId) == m

\* the pause test processQueue starts with
DispatchHeld(m) == m.isPaused

RECURSIVE processQueue(_), executeAll(_, _), executeTask(_, _), handleFailure(_, _), retryTaskInternal(_, _)

processQueue(m) ==
    IF DispatchHeld(m) THEN m
    ELSE IF AvailableSlots(m) <= 0 THEN m
    ELSE LET queuedTasks == ByStatus(m.queue, "queued")
         IN IF Len(queuedTasks) = 0 THEN m
            ELSE executeAll(m, TasksToStart(queuedTasks, AvailableSlots(m)))

\* for (const task of tasksToStart) this.executeTask(task)
executeAll(m, tasksToStart) ==
    IF tasksToStart = <<>> \/ m.ovf THEN m
    ELSE executeAll(executeTask(m, Head(tasksToStart)), Tail(tasksToStart))

\* task is the object taken from the queue when tasksToStart was built; a
\* nested processQueue may have started or removed it since
executeTask(m, task) ==
    LET inQueue == task.id \in Ids(m.queue)
        obj == IF inQueue THEN Find(m.queue, task.id) ELSE task
        started == [obj EXCEPT !.status = "running"]
        m0 == send([m EXCEPT !.queue = IF inQueue THEN Update(@, task.id, started) ELSE @],
                   TaskUpdate(started))
        m1 == addLog(addLog(m0, "info", task.id), "debug", task.id)
        primitive == Primitive(started)
        m2 == Emit(m1, Started(started, primitive))
    IN IF primitive = "unsupported"
       THEN handleFailure(m1, task.id)   \* throw new Error('Unsupported task type')
       ELSE IF primitive = "fs" THEN [m2 EXCEPT !.fsOps = @ \cup {task.id}]
       ELSE IF primitive = "purge" THEN SpawnUntracked(m2, task.id)
       ELSE Spawn(m2, task.id)

handleFailure(m, taskId) ==
    IF QueueFind(m, taskId) = <<>> THEN m
    ELSE LET task == QueueFind(m, taskId)[1]
             failed == [task EXCEPT !.status = "failed", !.error = "err", !.completedAt = Now(m)]
         IN IF AutoRetryEligible(m, task)
            THEN IF WriteRaises(m)
                 THEN StoreRaise([addLog(m, "warning", taskId) EXCEPT !.queue = WithoutId(@, taskId)])
                 ELSE retryTaskInternal(
                          [addLog(m, "warning", taskId)
                               EXCEPT !.queue = WithoutId(@, taskId),
                                      !.store = StoreAddTask(@, failed)],
                          failed)
            ELSE IF WriteRaises(m)
            THEN StoreRaise([m EXCEPT !.queue = Update(@, taskId, failed)])
            ELSE processQueue(
                     send(addLog([m EXCEPT !.store = StoreAddTask(@, failed),
                                           !.queue = WithoutId(@, taskId)],
                                 "error", taskId),
                          TaskUpdate(failed)))

retryTaskInternal(m, oldTask) ==
    IF oldTask.retryCount + 1 > MaxRetries(m.retryAttempts) THEN m
    ELSE IF m.nextId > m.idLimit THEN [m EXCEPT !.ovf = TRUE]
    ELSE LET newTask == RetryOf(oldTask, m.nextId)
         IN processQueue(
                send([m EXCEPT !.queue = Append(@, newTask),
                               !.nextId = @ + 1],
                     TaskUpdate(newTask)))

\* loadSettings: config.maxConcurrentTransfers || 1
loadSettings(cfgValue) == IF cfgValue = 0 THEN MIN_CONCURRENT ELSE cfgValue

(***************************************************************************)
(* Initial state: the manager after construction                           *)
(***************************************************************************)
Init ==
    /\ queue = <<>>
    /\ store = <<>>
    /\ cfgMaxConcurrent \in MIN_CONCURRENT..MaxConcurrentInput
    /\ maxConcurrent = loadSettings(cfgMaxConcurrent)
    /\ isPaused = FALSE
    /\ autoRetry \in BOOLEAN
    /\ retryAttempts \in 1..MaxRetryAttempts
    /\ nextId = 1
    /\ idLimit = MaxTasks
    /\ procs = [i \in TaskIds |-> 0]
    /\ fsOps = {}
    /\ activeProcesses = {}
    /\ logs = <<>>
    /\ storeFault = "no"
    /\ target = "ready"
    /\ pipe = NoPipe
    /\ parser = NewParser
    /\ out = {}

(***************************************************************************)
(* Requests                                                                *)
(***************************************************************************)
addTask(m, type, source) ==
    LET task == NewTask(m.nextId, type, source)
    IN processQueue(
           send(addLog([m EXCEPT !.queue = Append(@, task),
                                 !.nextId = @ + 1],
                       "info", task.id),
                TaskUpdate(task)))

AddTask(type, source) ==
    /\ nextId <= idLimit
    /\ Commit(addTask(Cur, type, source))

\* rcloneService.cancel(taskId): SIGTERM to the tracked process, if any
RcloneCancel(m, taskId) ==
    IF taskId \in m.activeProcesses
    THEN Emit([m EXCEPT !.activeProcesses = @ \ {taskId}], Signal(taskId))
    ELSE m

\* the lookup cancelTask does: the live queue only
CancelTarget(m, taskId) == IF taskId \in Ids(m.queue) THEN <<Find(m.queue, taskId)>> ELSE <<>>

cancelTask(m, taskId) ==
    LET found == CancelTarget(m, taskId)
    IN IF found = <<>> THEN Throw(m)
       ELSE LET task == found[1]
                m1 == IF task.status = "running" THEN RcloneCancel(m, taskId) ELSE m
                cancelled == [task EXCEPT !.status = "cancelled", !.completedAt = Now(m)]
            IN IF WriteRaises(m1)
               THEN StoreRaise([m1 EXCEPT !.queue = Update(@, taskId, cancelled)])
               ELSE processQueue(
                   send(addLog([m1 EXCEPT !.store = StoreAddTask(@, cancelled),
                                          !.queue = WithoutId(@, taskId)],
                               "warning", taskId),
                        TaskUpdate(cancelled)))

CancelTask(taskId) ==
    /\ taskId \in TaskIds
    /\ Commit(cancelTask(Cur, taskId))

\* the rejection test without the retry cap
RetryRejectedUncapped(m, taskId) ==
    \/ ~StoreHas(m.store, taskId)
    \/ Find(m.store, taskId).status \notin {"failed", "cancelled"}

\* the conditions under which retryTask throws
RetryRejected(m, taskId) ==
    \/ ~StoreHas(m.store, taskId)
    \/ Find(m.store, taskId).status \notin {"failed", "cancelled"}
    \/ Find(m.store, taskId).retryCount >= MaxRetries(m.retryAttempts)

\* a retry that requeues the stored record in place
retryTaskInPlace(m, taskId) ==
    IF RetryRejected(m, taskId) THEN Throw(m)
    ELSE [m EXCEPT !.store = Update(@, taskId, [Find(@, taskId) EXCEPT !.status = "queued",
                                                                      !.retryCount = @ + 1])]

retryTask(m, taskId) ==
    IF RetryRejected(m, taskId) THEN Throw(m)
    ELSE IF m.nextId > m.idLimit THEN [m EXCEPT !.ovf = TRUE]
    ELSE LET oldTask == Find(m.store, taskId)
             newTask == RetryOf(oldTask, m.nextId)
         IN processQueue(
                send(addLog([m EXCEPT !.queue = Append(@, newTask),
                                      !.nextId = @ + 1],
                            "info", newTask.id),
                     TaskUpdate(newTask)))

RetryTask(taskId) ==
    /\ taskId \in TaskIds
    /\ Commit(retryTask(Cur, taskId))

\* the range test of setMaxConcurrent
ConcurrentInRange(value) == ~(value < MIN_CONCURRENT \/ value > MAX_CONCURRENT)

setMaxConcurrent(m, value) ==
    IF ~ConcurrentInRange(value) THEN Throw(m)
    ELSE LET m1 == [m EXCEPT !.maxConcurrent = value, !.cfgMaxConcurrent = value]
         IN IF ~m1.isPaused THEN processQueue(m1) ELSE m1

SetMaxConcurrent(value) ==
    /\ value \in ConcurrentInputs
    /\ Commit(setMaxConcurrent(Cur, value))

\* the config:save handler for an update of maxConcurrentTransfers:
\* configManager.save(updates), then setMaxConcurrent; an error thrown on the
\* way is caught and returned as { success: false }, kept as the threw flag
configSave(m, value) == setMaxConcurrent([m EXCEPT !.cfgMaxConcurrent = value], value)

ConfigSave(value) ==
    /\ value \in ConcurrentInputs
    /\ Commit(configSave(Cur, value))

pauseQueue(m) ==
    IF m.isPaused THEN m ELSE addLog([m EXCEPT !.isPaused = TRUE], "warning", NoTask)

PauseQueue ==
    /\ isPaused \in BOOLEAN
    /\ Commit(pauseQueue(Cur))

resumeQueue(m) ==
    IF ~m.isPaused THEN m
    ELSE processQueue(addLog([m EXCEPT !.isPaused = FALSE], "info", NoTask))

ResumeQueue ==
    /\ isPaused \in BOOLEAN
    /\ Commit(resumeQueue(Cur))

RECURSIVE cancelQueued(_, _)
\* the loop of clearQueue over the queued tasks
cancelQueued(m, queuedTasks) ==
    IF queuedTasks = <<>> THEN m
    ELSE LET cancelled == [Head(queuedTasks) EXCEPT !.status = "cancelled", !.completedAt = Now(m)]
         IN IF WriteRaises(m)
            THEN StoreRaise([m EXCEPT !.queue = Update(@, cancelled.id, cancelled)])
            ELSE cancelQueued(
                send([m EXCEPT !.queue = Update(@, cancelled.id, cancelled),
                               !.store = StoreAddTask(@, cancelled)],
                     TaskUpdate(cancelled)),
                Tail(queuedTasks))

clearQueue(m) ==
    LET m1 == cancelQueued(m, ByStatus(m.queue, "queued"))
    IN IF m1.threw THEN m1
       ELSE addLog([m1 EXCEPT !.queue = SelectSeq(@, LAMBDA t : t.status # "queued")],
              "warning", NoTask)

ClearQueue ==
    /\ Len(queue) >= 0
    /\ Commit(clearQueue(Cur))

(***************************************************************************)
(* Subprocess events                                                       *)
(***************************************************************************)
\* Math.round(n / d) for n >= 0, d > 0
Round(n, d) == (2 * n + d) \div (2 * d)

\* the percentage without the cap
PercentageUncapped(bytes, totalBytes) ==
    IF totalBytes > 0 THEN Round(bytes * 100, totalBytes) ELSE 0

\* the percentage handleProgress derives from a progress record
Percentage(bytes, totalBytes) ==
    LET percentage == IF totalBytes > 0 THEN Round(bytes * 100, totalBytes) ELSE 0
    IN IF percentage > PERCENT_CAP THEN PERCENT_CAP ELSE percentage

\* transferring: rcloneProgress.transferring holds at least one file
handleProgress(m, taskId, bytes, totalBytes, transferring) ==
    IF QueueFind(m, taskId) = <<>> THEN m
    ELSE LET task == [QueueFind(m, taskId)[1] EXCEPT !.percentage = Percentage(bytes, totalBytes)]
             m1 == notifyProgressUpdate([m EXCEPT !.queue = Update(@, taskId, task)], task)
         IN IF transferring THEN notifyTransferringFiles(m1, task) ELSE m1

\* the percentage handleCompletion forces
CompletedPercentage == 100

handleCompletion(m, taskId) ==
    IF QueueFind(m, taskId) = <<>> THEN m
    ELSE LET task == [QueueFind(m, taskId)[1] EXCEPT !.status = "completed",
                                                   !.completedAt = Now(m),
                                                   !.percentage = CompletedPercentage]
         IN IF WriteRaises(m)
            THEN StoreRaise([m EXCEPT !.queue = Update(@, taskId, task)])
            ELSE processQueue(
                send(addLog([m EXCEPT !.store = StoreAddTask(@, task),
                                      !.queue = WithoutId(@, taskId)],
                            "success", taskId),
                     TaskUpdate(task)))

\* the end of executeTask once the transfer has succeeded: handleCompletion
\* inside the try, and the catch, which calls handleFailure
Resolved(m, taskId) ==
    LET r == handleCompletion(m, taskId)
    IN IF r.threw THEN handleFailure([r EXCEPT !.threw = FALSE], taskId) ELSE r

\* process.on('close'): the process is gone and no longer tracked
Closed(m, taskId) ==
    [m EXCEPT !.procs = [@ EXCEPT ![taskId] = @ - 1],
              !.activeProcesses = @ \ {taskId}]

\* a progress record on the output of a live subprocess
ProcProgress(taskId, bytes, totalBytes, transferring) ==
    /\ procs[taskId] > 0
    /\ Commit(handleProgress(Cur, taskId, bytes, totalBytes, transferring))

\* exit with code 0: the promise resolves, executeTask calls handleCompletion
ProcExitOk(taskId) ==
    /\ procs[taskId] > 0
    /\ Commit(Resolved(Closed(Cur, taskId), taskId))

\* non-zero exit, exit by signal or spawn error: the promise rejects
ProcExitFail(taskId) ==
    /\ procs[taskId] > 0
    /\ Commit(handleFailure(Closed(Cur, taskId), taskId))

\* fs.promises.rm or unlink resolves: executeTask calls handleCompletion
FsDone(taskId) ==
    /\ taskId \in fsOps
    /\ Commit(Resolved([Cur EXCEPT !.fsOps = @ \ {taskId}], taskId))

\* fs.promises.rm or unlink rejects: the catch of executeTask
FsFail(taskId) ==
    /\ taskId \in fsOps
    /\ Commit(handleFailure([Cur EXCEPT !.fsOps = @ \ {taskId}], taskId))

(***************************************************************************)
(* Cleanup requests                                                        *)
(***************************************************************************)
\* a clearing that empties the store
clearEverything(m) == [m EXCEPT !.store = <<>>]

\* transferStore.clearCompletedTasks(): tasks.filter(t => t.status !== 'completed')
clearCompletedTasks(m) == [m EXCEPT !.store = SelectSeq(@, LAMBDA t : t.status # "completed")]

ClearCompletedTasks ==
    /\ Len(store) >= 0
    /\ Commit(clearCompletedTasks(Cur))

\* transferStore.clearFailedTasks(): tasks.filter(t => t.status !== 'failed')
clearFailedTasks(m) == [m EXCEPT !.store = SelectSeq(@, LAMBDA t : t.status # "failed")]

ClearFailedTasks ==
    /\ Len(store) >= 0
    /\ Commit(clearFailedTasks(Cur))

RECURSIVE cancelEach(_, _)
\* for (const task of runningTasks) this.rcloneService.cancel(task.id)
cancelEach(m, tasks) ==
    IF tasks = <<>> THEN m ELSE cancelEach(RcloneCancel(m, Head(tasks).id), Tail(tasks))

clearAllTasks(m) ==
    LET m1 == cancelEach(m, ByStatus(m.store, "running"))
    IN [m1 EXCEPT !.queue = <<>>, !.store = <<>>]

ClearAllTasks ==
    /\ Len(store) >= 0
    /\ Commit(clearAllTasks(Cur))

RECURSIVE deleteEach(_, _)
\* for (const task of historyTasks) this.transferStore.deleteTask(task.id)
deleteEach(tasks, historyTasks) ==
    IF historyTasks = <<>> THEN tasks
    ELSE deleteEach(StoreDeleteTask(tasks, Head(historyTasks).id), Tail(historyTasks))

\* deleteTask for every stored completed, failed or cancelled task, then addLog
clearHistory(m) ==
    LET historyTasks == SelectSeq(m.store, LAMBDA t : t.status \in {"completed", "failed", "cancelled"})
    IN addLog([m EXCEPT !.store = deleteEach(@, historyTasks)], "info", NoTask)

ClearHistory ==
    /\ Len(store) >= 0
    /\ Commit(clearHistory(Cur))

removeTask(m, taskId) ==
    IF taskId \in Ids(m.queue)
    THEN IF Find(m.queue, taskId).status = "running"
         THEN Throw(m)
         ELSE [m EXCEPT !.queue = WithoutId(@, taskId)]
    ELSE IF StoreHas(m.store, taskId)
         THEN [m EXCEPT !.store = StoreDeleteTask(@, taskId)]
         ELSE m

RemoveTask(taskId) ==
    /\ taskId \in TaskIds
    /\ Commit(removeTask(Cur, taskId))

(***************************************************************************)
(* Specification                                                           *)
(***************************************************************************)
Next ==
    \/ \E type \in TaskTypes : AddTask(type, "remote")
    \/ \E taskId \in TaskIds : CancelTask(taskId)
    \/ \E taskId \in TaskIds : RetryTask(taskId)
    \/ \E value \in ConcurrentInputs : SetMaxConcurrent(value)
    \/ PauseQueue
    \/ ResumeQueue
    \/ ClearQueue
    \/ \E taskId \in TaskIds, p \in ProgressInputs, transferring \in BOOLEAN :
           ProcProgress(taskId, p[1], p[2], transferring)
    \/ \E taskId \in TaskIds : ProcExitOk(taskId)
    \/ \E taskId \in TaskIds : ProcExitFail(taskId)
    \/ ClearCompletedTasks
    \/ ClearFailedTasks
    \/ ClearAllTasks
    \/ ClearHistory
    \/ \E taskId \in TaskIds : RemoveTask(taskId)

Spec == Init /\ [][Next]_vars

(***************************************************************************)
(* Retry lineages: the requests and events that make and end attempts,     *)
(* with one more task id, so that a task can be retried twice              *)
(***************************************************************************)
InitLineage ==
    /\ queue = <<>>
    /\ store = <<>>
    /\ cfgMaxConcurrent \in MIN_CONCURRENT..MaxConcurrentInput
    /\ maxConcurrent = loadSettings(cfgMaxConcurrent)
    /\ isPaused = FALSE
    /\ autoRetry \in BOOLEAN
    /\ retryAttempts \in 1..MaxRetryAttempts
    /\ nextId = 1
    /\ idLimit = MaxLineageTasks
    /\ procs = [i \in TaskIds |-> 0]
    /\ fsOps = {}
    /\ activeProcesses = {}
    /\ logs = <<>>
    /\ storeFault = "no"
    /\ target = "ready"
    /\ pipe = NoPipe
    /\ parser = NewParser
    /\ out = {}

NextLineage ==
    \/ \E type \in TaskTypes : AddTask(type, "remote")
    \/ \E taskId \in TaskIds : CancelTask(taskId)
    \/ \E taskId \in TaskIds : RetryTask(taskId)
    \/ \E taskId \in TaskIds : ProcExitOk(taskId)
    \/ \E taskId \in TaskIds : ProcExitFail(taskId)

SpecLineage == InitLineage /\ [][NextLineage]_vars

(***************************************************************************)
(* Dispatch under a changing limit: submissions, setMaxConcurrent and      *)
(* subprocess exits, with as many task ids as SpecLineage                  *)
(***************************************************************************)
NextDispatch ==
    \/ \E type \in TaskTypes : AddTask(type, "remote")
    \/ \E value \in ConcurrentInputs : SetMaxConcurrent(value)
    \/ \E taskId \in TaskIds : ProcExitOk(taskId)
    \/ \E taskId \in TaskIds : ProcExitFail(taskId)

SpecDispatch == InitLineage /\ [][NextDispatch]_vars

(***************************************************************************)
(* Tasks of every type and source, run, failed, retried and cancelled      *)
(***************************************************************************)
NextExecute ==
    \/ \E type \in AllTaskTypes, source \in SourceTypes : AddTask(type, source)
    \/ \E taskId \in TaskIds : CancelTask(taskId)
    \/ \E taskId \in TaskIds : RetryTask(taskId)
    \/ \E taskId \in TaskIds : ProcExitOk(taskId)
    \/ \E taskId \in TaskIds : ProcExitFail(taskId)
    \/ \E taskId \in TaskIds : FsDone(taskId)
    \/ \E taskId \in TaskIds : FsFail(taskId)

SpecExecute == Init /\ [][NextExecute]_vars

(***************************************************************************)
(* The history file failing: writes of the task store raise once or until  *)
(* further notice while tasks run, end, are cancelled and cleared          *)
(***************************************************************************)
\* the file system under electron-store starts or stops failing
SetStoreFault(f) ==
    /\ f # storeFault
    /\ Commit([Cur EXCEPT !.storeFault = f])

NextStoreFault ==
    \/ \E f \in StoreFaults : SetStoreFault(f)
    \/ \E type \in TaskTypes : AddTask(type, "remote")
    \/ \E taskId \in TaskIds : CancelTask(taskId)
    \/ ClearQueue
    \/ \E taskId \in TaskIds : ProcExitOk(taskId)
    \/ \E taskId \in TaskIds : ProcExitFail(taskId)

SpecStoreFault == Init /\ [][NextStoreFault]_vars

(***************************************************************************)
(* Every configured retryAttempts, 0 included: app-config.json and the     *)
(* config:save handler take any number                                     *)
(***************************************************************************)
InitRetryLimit ==
    /\ queue = <<>>
    /\ store = <<>>
    /\ cfgMaxConcurrent \in MIN_CONCURRENT..MaxConcurrentInput
    /\ maxConcurrent = loadSettings(cfgMaxConcurrent)
    /\ isPaused = FALSE
    /\ autoRetry \in BOOLEAN
    /\ retryAttempts \in 0..MaxRetryAttempts
    /\ nextId = 1
    /\ idLimit = MaxTasks
    /\ procs = [i \in TaskIds |-> 0]
    /\ fsOps = {}
    /\ activeProcesses = {}
    /\ logs = <<>>
    /\ storeFault = "no"
    /\ target = "ready"
    /\ pipe = NoPipe
    /\ parser = NewParser
    /\ out = {}

SpecRetryLimit == InitRetryLimit /\ [][NextLineage]_vars

(***************************************************************************)
(* The manager with its scheduling: a subprocess that was started exits    *)
(* (the close event arrives), and a paused queue is resumed                *)
(***************************************************************************)
NextLive ==
    \/ \E type \in TaskTypes : AddTask(type, "remote")
    \/ \E taskId \in TaskIds : CancelTask(taskId)
    \/ PauseQueue
    \/ ResumeQueue
    \/ ClearQueue
    \/ \E taskId \in TaskIds : ProcExitOk(taskId)
    \/ \E taskId \in TaskIds : ProcExitFail(taskId)

\* the close event of a subprocess of the task: one process fewer of it
SubprocessExits(taskId) ==
    /\ procs[taskId] > 0
    /\ \E p \in [TaskIds -> 0..MaxLineageTasks] : p[taskId] < procs[taskId] /\ procs' = p

\* resumeQueue() on a paused queue
Resumed == isPaused /\ isPaused' = FALSE

\* a subprocess that stays alive eventually exits, a queue that stays paused
\* is eventually resumed
Fairness ==
    /\ \A taskId \in TaskIds : WF_procs(SubprocessExits(taskId))
    /\ WF_isPaused(Resumed)

SpecLive == InitRetryLimit /\ [][NextLive]_vars /\ Fairness

(***************************************************************************)
(* The application restarted: a new manager is constructed from the        *)
(* configuration and the history the last one left                         *)
(***************************************************************************)
\* new TransferQueueManager(...): an empty queue, not paused, loadSettings;
\* loadPendingTasks loads nothing.  Taken when no task is at work.
Construct ==
    /\ \A id \in TaskIds : procs[id] = 0
    /\ fsOps = {}
    /\ Commit([Cur EXCEPT !.queue = <<>>,
                          !.isPaused = FALSE,
                          !.activeProcesses = {},
                          !.maxConcurrent = loadSettings(cfgMaxConcurrent)])

NextRestart ==
    \/ Construct
    \/ \E type \in TaskTypes : AddTask(type, "remote")
    \/ \E value \in ConcurrentInputs : SetMaxConcurrent(value)
    \/ \E value \in ConcurrentInputs : ConfigSave(value)
    \/ PauseQueue
    \/ ResumeQueue
    \/ \E taskId \in TaskIds : ProcExitOk(taskId)

SpecRestart == Init /\ [][NextRestart]_vars

(***************************************************************************)
(* The history cleared while tasks wait, run and end                       *)
(***************************************************************************)
NextClear ==
    \/ \E type \in TaskTypes : AddTask(type, "remote")
    \/ \E taskId \in TaskIds : CancelTask(taskId)
    \/ \E taskId \in TaskIds : ProcExitOk(taskId)
    \/ \E taskId \in TaskIds : ProcExitFail(taskId)
    \/ ClearCompletedTasks
    \/ ClearFailedTasks
    \/ ClearHistory

SpecClear == InitLineage /\ [][NextClear]_vars

(***************************************************************************)
(* The broadcast target: the window is set, cleared, destroyed or failing  *)
(* while tasks are added, run, cancelled and retried                       *)
(***************************************************************************)
\* TransferBroadcaster.setMainWindow, and the window being destroyed or its
\* webContents.send starting to raise
SetMainWindow(t) ==
    /\ t # target
    /\ Commit([Cur EXCEPT !.target = t])

NextBroadcast ==
    \/ \E t \in Targets : SetMainWindow(t)
    \/ \E type \in TaskTypes : AddTask(type, "remote")
    \/ \E taskId \in TaskIds : CancelTask(taskId)
    \/ \E taskId \in TaskIds : RetryTask(taskId)
    \/ ClearQueue
    \/ \E taskId \in TaskIds, p \in ProgressInputs, transferring \in BOOLEAN :
           ProcProgress(taskId, p[1], p[2], transferring)
    \/ \E taskId \in TaskIds : ProcExitOk(taskId)
    \/ \E taskId \in TaskIds : ProcExitFail(taskId)

SpecBroadcast == Init /\ [][NextBroadcast]_vars

(***************************************************************************)
(* The limit as a setting: setMaxConcurrent called directly and through    *)
(* the config:save handler                                                 *)
(***************************************************************************)
NextConfig ==
    \/ \E type \in TaskTypes : AddTask(type, "remote")
    \/ \E value \in ConcurrentInputs : SetMaxConcurrent(value)
    \/ \E value \in ConcurrentInputs : ConfigSave(value)
    \/ PauseQueue
    \/ ResumeQueue
    \/ \E taskId \in TaskIds : ProcExitOk(taskId)

SpecConfig == Init /\ [][NextConfig]_vars

(***************************************************************************)
(* TransferStore.addTask on its own: a store that holds active records up  *)
(* to MaxStoreHeadroom places below MAX_TASKS, then addTask calls with     *)
(* tasks of every status                                                   *)
(***************************************************************************)
\* a stored record: terminal statuses carry completedAt
StoredTask(id, status) ==
    [NewTask(id, "copy", "remote") EXCEPT !.status = status,
                                !.completedAt = IF status \in {"running", "queued"} THEN 0 ELSE id]

\* n records with status running, created before any task of this run
ActiveRecords(n) == [i \in 1..n |-> StoredTask(i - n, "running")]

InitStore ==
    /\ queue = <<>>
    /\ \E free \in 0..MaxStoreHeadroom : store = ActiveRecords(MAX_TASKS - free)
    /\ cfgMaxConcurrent = MIN_CONCURRENT
    /\ maxConcurrent = loadSettings(cfgMaxConcurrent)
    /\ isPaused = FALSE
    /\ autoRetry = TRUE
    /\ retryAttempts = 1
    /\ nextId = 1
    /\ idLimit = MaxStoreAdds
    /\ procs = [i \in TaskIds |-> 0]
    /\ fsOps = {}
    /\ activeProcesses = {}
    /\ logs = <<>>
    /\ storeFault = "no"
    /\ target = "ready"
    /\ pipe = NoPipe
    /\ parser = NewParser
    /\ out = {}

\* transferStore.addTask(task)
AddStored(status) ==
    /\ nextId <= idLimit
    /\ Commit([Cur EXCEPT !.store = StoreAddTask(@, StoredTask(nextId, status)),
                          !.nextId = @ + 1])

\* <<createdAt, completedAt>> of the records handed to addTask; completedAt 0
\* is unset.  The keys come in no order, and a creation time stands in
\* where the completion time is missing
StampInputs == {<<1, 0>>, <<MaxStamp, 0>>, <<1, MaxStamp>>, <<MaxStamp, 1>>, <<1, 2>>}

\* transferStore.addTask(task) with a task of any status and timestamps
AddStamped(status, stamp) ==
    /\ nextId <= idLimit
    /\ Commit([Cur EXCEPT !.store = StoreAddTask(@, [StoredTask(nextId, status)
                                                       EXCEPT !.createdAt = stamp[1],
                                                              !.completedAt = stamp[2]]),
                          !.nextId = @ + 1])

NextEvict ==
    \E status \in {"running", "completed", "failed"}, stamp \in StampInputs : AddStamped(status, stamp)

SpecEvict == InitStore /\ [][NextEvict]_vars

NextStore == \E status \in {"queued", "running", "completed", "failed", "cancelled"} : AddStored(status)

SpecStore == InitStore /\ [][NextStore]_vars

(***************************************************************************)
(* The log buffer of TransferStore on its own: a buffer that holds entries *)
(* up to MaxLogHeadroom places below MAX_LOGS, then addLog, addLogs,       *)
(* clearAllLogs and clearLogsByTask calls                                  *)
(***************************************************************************)
LogTaskIds == {1, 2}

\* a log entry: its id is fresh (uuidv4), here the append sequence number
LogEntry(id, taskId) == [id |-> id, taskId |-> taskId, type |-> "info"]

\* n entries appended before this run, for the two tasks in turn
OlderLogs(n) == [i \in 1..n |-> LogEntry(i - n, 1 + (i % 2))]

InitLogs ==
    /\ queue = <<>>
    /\ store = <<>>
    /\ cfgMaxConcurrent = MIN_CONCURRENT
    /\ maxConcurrent = loadSettings(cfgMaxConcurrent)
    /\ isPaused = FALSE
    /\ autoRetry = TRUE
    /\ retryAttempts = 1
    /\ nextId = 1
    /\ idLimit = MaxLogAdds
    /\ procs = [i \in TaskIds |-> 0]
    /\ fsOps = {}
    /\ activeProcesses = {}
    /\ \E free \in 0..MaxLogHeadroom : logs = OlderLogs(MAX_LOGS - free)
    /\ storeFault = "no"
    /\ target = "ready"
    /\ pipe = NoPipe
    /\ parser = NewParser
    /\ out = {}

\* transferStore.addLog(log)
AddLog(taskId) ==
    /\ nextId <= idLimit
    /\ Commit([Cur EXCEPT !.logs = StoreAddLog(@, LogEntry(nextId, taskId)),
                          !.nextId = @ + 1])

\* transferStore.addLogs(newLogs)
AddLogs(taskId, n) ==
    /\ nextId + n - 1 <= idLimit
    /\ Commit([Cur EXCEPT !.logs = StoreAddLogs(@, [i \in 1..n |-> LogEntry(nextId + i - 1, taskId)]),
                          !.nextId = @ + n])

\* transferStore.clearAllLogs()
ClearAllLogs ==
    /\ Len(logs) >= 0
    /\ Commit([Cur EXCEPT !.logs = StoreClearAllLogs(@)])

\* transferStore.clearLogsByTask(taskId)
ClearLogsByTask(taskId) ==
    /\ taskId \in LogTaskIds
    /\ Commit([Cur EXCEPT !.logs = StoreClearLogsByTask(@, taskId)])

NextLogs ==
    \/ \E taskId \in LogTaskIds : AddLog(taskId)
    \/ \E taskId \in LogTaskIds : \E n \in 2..MaxLogBatch : AddLogs(taskId, n)
    \/ ClearAllLogs
    \/ \E taskId \in LogTaskIds : ClearLogsByTask(taskId)

SpecLogs == InitLogs /\ [][NextLogs]_vars

(***************************************************************************)
(* A RcloneOutputParser on its own: lines of every kind arrive on stdout   *)
(* and stderr, and the parser is reset for the next transfer               *)
(***************************************************************************)
ProcessLine(line, source) ==
    /\ Len(parser.errorMessages) < MaxErrorMessages
    /\ ~processLine(parser, line, source).threw
    /\ Commit([Cur EXCEPT !.parser = processLine(parser, line, source).parser])

ParserReset ==
    /\ parser # NewParser
    /\ Commit([Cur EXCEPT !.parser = NewParser])

NextParser ==
    \/ \E line \in Lines : \E source \in Sources : ProcessLine(line, source)
    \/ ParserReset

InitParser ==
    /\ InitLineage
    /\ autoRetry
    /\ cfgMaxConcurrent = MIN_CONCURRENT

SpecParser == InitParser /\ [][NextParser]_vars

(***************************************************************************)
(* The stdout or stderr stream of one rclone subprocess, delivered to the  *)
(* handlers of a fresh parser in data chunks of any size                   *)
(***************************************************************************)
InitChunks ==
    /\ queue = <<>>
    /\ store = <<>>
    /\ cfgMaxConcurrent = MIN_CONCURRENT
    /\ maxConcurrent = loadSettings(cfgMaxConcurrent)
    /\ isPaused = FALSE
    /\ autoRetry = TRUE
    /\ retryAttempts = 1
    /\ nextId = 1
    /\ idLimit = MaxTasks
    /\ procs = [i \in TaskIds |-> 0]
    /\ fsOps = {}
    /\ activeProcesses = {}
    /\ logs = <<>>
    /\ storeFault = "no"
    /\ target = "ready"
    /\ \E source \in Sources : \E output \in Outputs :
           pipe = [source |-> source, written |-> output, pending |-> output,
                   events |-> <<>>]
    /\ parser = NewParser
    /\ out = {}

\* a 'data' event of the stream: createStdoutHandler / createStderrHandler
OnData(size) ==
    /\ size \in 1..Len(pipe.pending)
    /\ LET r == processData(parser, pipe.events, SubSeq(pipe.pending, 1, size), pipe.source)
       IN Commit([Cur EXCEPT !.parser = r.parser,
                             !.pipe.events = r.events,
                             !.pipe.pending = SubSeq(@, size + 1, Len(@))])

NextChunks == \E size \in 1..MaxOutput : OnData(size)

SpecChunks == InitChunks /\ [][NextChunks]_vars

(***************************************************************************)
(* Properties                                                              *)
(***************************************************************************)
Running(q) == CountStatus(q, "running")

Queued(q) == CountStatus(q, "queued")

\* every task the manager holds, live or stored
AllTasks == {queue[i] : i \in 1..Len(queue)} \cup {store[i] : i \in 1..Len(store)}

\* C1 as stated: in every reachable state the number of live-queue tasks with
\* status running is at most maxConcurrent, also right after setMaxConcurrent
\* lowered the limit while tasks were running.
C1_RunningAtMostLimit == Running(queue) <= maxConcurrent

\* C1 amended: no step raises the number of running tasks above the current
\* maxConcurrent.  After a step the running count is within the limit or is
\* no larger than before the step (setMaxConcurrent lowered the limit under
\* tasks that keep running).
C1_NoStartAboveLimit ==
    [][Running(queue') <= maxConcurrent' \/ Running(queue') <= Running(queue)]_vars

\* the limit is reached while a task waits
C1_Witness == Running(queue) = maxConcurrent /\ Queued(queue) > 0

\* C2: no id is in both the live queue and the store, no id occurs twice in
\* the store or in the live queue (so getTasks() lists no id twice), and an id
\* enters the store only in a step that takes it out of the live queue.
C2_StoredOnce ==
    /\ [](/\ Ids(queue) \cap Ids(store) = {}
          /\ Cardinality(Ids(store)) = Len(store)
          /\ Cardinality(Ids(queue)) = Len(queue))
    /\ [][\A id \in Ids(store') \ Ids(store) :
             /\ id \notin Ids(queue')
             /\ id \in Ids(queue) \/ (nextId <= id /\ id < nextId')]_vars

Present(id) == id \in Ids(queue) \cup Ids(store)

StartedIn(q, qNext) ==
    {t.id : t \in {qNext[i] : i \in 1..Len(qNext)}} \cap
    {id \in TaskIds :
        /\ \E i \in 1..Len(qNext) : qNext[i].id = id /\ qNext[i].status = "running"
        /\ \A i \in 1..Len(q) : q[i].id = id => q[i].status = "queued"}

\* C4: dispatch is FIFO over the queued subset.  In every step no task that
\* is still queued after the step stands in the queue before a task the step
\* started, and a step that starts tasks fills the free slots: after it no
\* task is queued or the running count has reached maxConcurrent.  The queue
\* keeps enqueue order, retry tasks being appended at its tail.
C4_FifoDispatch ==
    [][/\ \A i, j \in 1..Len(queue') :
             (i < j /\ queue'[j].id \in StartedIn(queue, queue')) => queue'[i].status # "queued"
       /\ StartedIn(queue, queue') # {} =>
             (Queued(queue') = 0 \/ Running(queue') >= maxConcurrent')
       /\ \A i, j \in 1..Len(queue') :
             (i < j /\ queue'[i].id \in Ids(queue) /\ queue'[j].id \in Ids(queue)) =>
                 \E k, l \in 1..Len(queue) :
                     k < l /\ queue[k].id = queue'[i].id /\ queue[l].id = queue'[j].id
       /\ \A i, j \in 1..Len(queue') :
             (queue'[i].id \in Ids(queue) /\ queue'[j].id \notin Ids(queue)) => i < j]_vars

\* two tasks were queued and the last step started the earlier one only
C4_Witness ==
    /\ Len(queue) = 2
    /\ queue[1].status = "running"
    /\ queue[2].status = "queued"
    /\ Broadcasts(out) = {TaskUpdate(queue[1])}

\* retry tasks of the lineage of an originally submitted task
RetriesOf(root) == {t \in AllTasks : t.root = root /\ t.id # root}

\* C5 as stated: for an originally submitted task no more than retryAttempts
\* retry tasks are ever made, automatic and manual ones counted together.
C5_RetryCapPerLineage ==
    \A root \in TaskIds : Cardinality({t.id : t \in RetriesOf(root)}) <= retryAttempts

\* the tasks in a sequence of tasks
Tasks(ts) == {ts[i] : i \in 1..Len(ts)}

\* C6: for every sequence of progress records the percentage stored on and
\* broadcast for a running task is between 0 and 99; a percentage, stored or
\* broadcast, is 100 exactly when the status is completed, so a failed or
\* cancelled task never has percentage 100.  The percentage handleProgress
\* derives is within 0..99 for every record with bytes, totalBytes up to
\* MaxBytes.
C6_PercentageRange ==
    /\ \A t \in AllTasks :
          /\ t.status = "running" => (0 <= t.percentage /\ t.percentage <= 99)
          /\ t.percentage = 100 <=> t.status = "completed"
          /\ 0 <= t.percentage /\ t.percentage <= 100
    /\ \A e \in Broadcasts(out) :
          /\ e.status = "running" => (0 <= e.percentage /\ e.percentage <= 99)
          /\ e.percentage = 100 <=> e.status = "completed"
    /\ \A bytes \in 0..MaxBytes, totalBytes \in 0..MaxBytes :
          0 <= Percentage(bytes, totalBytes) /\ Percentage(bytes, totalBytes) <= 99

\* a running task for which the last step handled a progress record whose
\* bytes reach totalBytes
C6_Witness ==
    \E t \in Tasks(queue) :
        /\ t.status = "running"
        /\ t.percentage = 99
        /\ out = {ProgressUpdate(t)}

\* the failed records a step writes to the store
NewlyFailed(st, stNext) ==
    {f \in Tasks(stNext) : f.status = "failed" /\ f.id \notin Ids(st)}

\* C7: a step in which a task fails with auto-retry eligible (autoRetry on and
\* retryCount below retryAttempts) stores the task as failed with its error,
\* takes it out of the live queue and appends one new task with a fresh id,
\* retryCount + 1, zeroed progress and the same type, announced as queued
\* (dispatch in the same step may already have started it).
C7_AutoRetryStep ==
    [][\A f \in NewlyFailed(store, store') :
          (autoRetry /\ f.retryCount < retryAttempts) =>
              /\ f.error # ""
              /\ f.id \in Ids(queue) \/ (nextId <= f.id /\ f.id < nextId')
              /\ f.id \notin Ids(queue')
              /\ \E i \in 1..Len(queue') :
                    LET n == queue'[i]
                    IN /\ nextId <= n.id /\ n.id < nextId'
                       /\ n.id \notin Ids(queue) \cup Ids(store)
                       /\ \A j \in 1..Len(queue') : queue'[j].id = n.id => j = i
                       /\ \A j \in 1..Len(queue') : queue'[j].id \in Ids(queue) => j < i
                       /\ n.retryCount = f.retryCount + 1
                       /\ n.type = f.type
                       /\ n.root = f.root
                       /\ n.percentage = 0
                       /\ n.error = ""
                       /\ n.status \in {"queued", "running"}
                       /\ TaskUpdate([n EXCEPT !.status = "queued"]) \in out'
                       /\ \A k \in 1..Len(queue') :
                             (queue'[k].root = f.root /\ queue'[k].id \notin Ids(queue)) => k = i]_vars

\* a failed first attempt is on record, its subprocess gone, and the last step
\* announced the retry task made from it
C7_Witness ==
    /\ autoRetry
    /\ \E f \in Tasks(store), n \in Tasks(queue) :
          /\ f.status = "failed"
          /\ f.retryCount = 0
          /\ n.root = f.root
          /\ n.retryCount = 1
          /\ n.id = nextId - 1
          /\ TaskUpdate([n EXCEPT !.status = "queued"]) \in out

\* a handler that left the queue, the store and the id counter as they were,
\* emitted nothing and touched no subprocess
NoEffect(m, r) ==
    /\ r.queue = m.queue
    /\ r.store = m.store
    /\ r.nextId = m.nextId
    /\ r.procs = m.procs
    /\ r.activeProcesses = m.activeProcesses
    /\ r.out = {}

AlreadyCancelled(id) == \E c \in Tasks(store) : c.id = id /\ c.status = "cancelled"

\* C9 as stated: cancelTask(id) for an id that has already been cancelled or
\* is otherwise not in the live queue throws and has no effect: no store
\* write, no second cancelled record, no broadcast, no signal, live queue
\* unchanged.
C9_CancelRejected ==
    \A id \in TaskIds :
        (id \notin Ids(queue) \/ AlreadyCancelled(id)) =>
            LET r == cancelTask(Cur, id)
            IN r.threw /\ NoEffect(Cur, r)

\* C10: cancelTask(id) on a queued or running task leaves exactly one record
\* for id in the store, with status cancelled, and id out of the live queue;
\* from then on an exit with code 0, a failing exit or a progress record of
\* the task's subprocess has no effect (the record stays cancelled, no second
\* record, no retry task), and no step changes or doubles the record.
C10_CancelIsFinal ==
    /\ [](\A id \in TaskIds :
            /\ (id \in Ids(queue) /\ Find(queue, id).status \in {"queued", "running"}) =>
                  LET r == cancelTask(Cur, id)
                  IN /\ ~r.threw
                     /\ id \notin Ids(r.queue)
                     /\ Len(SelectSeq(r.store, LAMBDA t : t.id = id)) = 1
                     /\ Find(r.store, id).status = "cancelled"
            /\ (AlreadyCancelled(id) /\ id \notin Ids(queue)) =>
                  /\ NoEffect(Closed(Cur, id), handleCompletion(Closed(Cur, id), id))
                  /\ NoEffect(Closed(Cur, id), handleFailure(Closed(Cur, id), id))
                  /\ \A p \in ProgressInputs, transferring \in BOOLEAN :
                         NoEffect(Cur, handleProgress(Cur, id, p[1], p[2], transferring)))
    /\ [][\A id \in TaskIds :
            (AlreadyCancelled(id) /\ id \notin Ids(queue)) =>
                /\ id \notin Ids(queue')
                /\ \A t \in Tasks(store') : t.id = id => t \in Tasks(store)
                /\ Len(SelectSeq(store', LAMBDA t : t.id = id)) <= Len(SelectSeq(store, LAMBDA t : t.id = id))]_vars

\* a task was cancelled while its subprocess ran (it had reported progress),
\* and the exit event of that subprocess has been handled since
C10_Witness ==
    \E c \in Tasks(store) :
        /\ c.status = "cancelled"
        /\ c.percentage > 0
        /\ c.id \notin Ids(queue)
        /\ procs[c.id] = 0

\* C11: while the queue is paused no step changes a task from queued to
\* running or creates a task that runs, whatever the operation; a running
\* task still ends while the queue is paused (its exit stores it as completed
\* or takes it through the failure path); and resumeQueue on a paused queue
\* dispatches at once: after it no task is queued or no slot is free.
C11_PauseHoldsDispatch ==
    /\ [][(isPaused /\ isPaused') => StartedIn(queue, queue') = {}]_vars
    /\ [](isPaused =>
            /\ \A id \in TaskIds :
                  (id \in Ids(queue) /\ Find(queue, id).status = "running" /\ procs[id] > 0) =>
                      LET ok == handleCompletion(Closed(Cur, id), id)
                          ko == handleFailure(Closed(Cur, id), id)
                      IN /\ id \notin Ids(ok.queue)
                         /\ \E t \in Tasks(ok.store) : t.id = id /\ t.status = "completed"
                         /\ Running(ok.queue) = Running(queue) - 1
                         /\ ko.ovf \/ /\ id \notin Ids(ko.queue)
                                      /\ \E t \in Tasks(ko.store) : t.id = id /\ t.status = "failed"
                                      /\ Running(ko.queue) = Running(queue) - 1
            /\ LET r == resumeQueue(Cur)
               IN r.ovf \/ /\ ~r.isPaused
                           /\ Queued(r.queue) = 0 \/ Running(r.queue) >= maxConcurrent
                           /\ Queued(queue) > 0 /\ Running(queue) < maxConcurrent
                                  => Queued(r.queue) < Queued(queue))

\* the queue is paused, a task waits although a slot is free, and the last
\* step was the completion of a running task
C11_Witness ==
    /\ isPaused
    /\ Queued(queue) > 0
    /\ Running(queue) < maxConcurrent
    /\ \E t \in Tasks(store) : t.status = "completed" /\ Broadcasts(out) = {TaskUpdate(t)}

\* C12 as stated: clearQueue() turns every queued task into one stored record
\* with status cancelled and takes it out of the live queue; every running
\* task stays as it is in the live queue, no termination signal is sent and
\* no task is started.
C12_ClearQueueFrame ==
    LET r == clearQueue(Cur)
    IN /\ \A t \in Tasks(queue) :
             t.status = "queued" =>
                 /\ t.id \notin Ids(r.queue)
                 /\ \E c \in Tasks(r.store) : c.id = t.id /\ c.status = "cancelled"
       /\ \A t \in Tasks(queue) : t.status = "running" => t \in Tasks(r.queue)
       /\ Running(r.queue) = Running(queue)
       /\ \A e \in r.out : e.kind # "signal"
       /\ r.procs = procs
       /\ r.activeProcesses = activeProcesses

\* the limits setMaxConcurrent accepts among the values offered
AcceptedLimits == {n \in ConcurrentInputs : 1 <= n /\ n <= 10}

\* the ids of the tasks of q a handler started: those it announced as running
Dispatched(q, r) ==
    {t.id : t \in {x \in Tasks(q) : x.status = "queued" /\ TaskUpdate([x EXCEPT !.status = "running"]) \in r.out}}

\* the ids of the first k queued tasks of q
FirstQueued(q, k) ==
    LET queuedTasks == ByStatus(q, "queued")
    IN {queuedTasks[i].id : i \in 1..Min(k, Len(queuedTasks))}

\* min(max(n - running, 0), queued)
SlotsToFill(q, n) ==
    Min(IF n - Running(q) > 0 THEN n - Running(q) ELSE 0, Queued(q))

\* what setMaxConcurrent never does to a running task: every running task is
\* in the queue as before, no signal is sent, no subprocess is dropped
RunningUntouched(r) ==
    /\ \A t \in Tasks(queue) : t.status = "running" => t \in Tasks(r.queue)
    /\ \A e \in r.out : e.kind # "signal"
    /\ \A id \in TaskIds : r.procs[id] >= procs[id]
    /\ activeProcesses \subseteq r.activeProcesses

\* C13 as stated: a successful setMaxConcurrent(n) on a queue that is not
\* paused starts exactly the first min(max(n - running, 0), queued) queued
\* tasks and leaves every running task as it was.
C13_StartsExactlyFreeSlots ==
    \A n \in AcceptedLimits :
        ~isPaused =>
            LET r == setMaxConcurrent(Cur, n)
            IN r.ovf \/ /\ Dispatched(queue, r) = FirstQueued(queue, SlotsToFill(queue, n))
                        /\ RunningUntouched(r)

\* C13 amended: a successful setMaxConcurrent(n) on a queue that is not
\* paused sets the limit and starts queued tasks from the front of the queued
\* subset until no slot is free or no task waits: the first
\* min(max(n - running, 0), queued) of them at least, and exactly those when
\* none of the started tasks fails at dispatch (a task of an unsupported type
\* fails at once and its slot goes to the next queued task in the same call).
\* It never stops, cancels or changes a task that was already running, also
\* when n is below the running count.
C13_FillsFreeSlots ==
    \A n \in AcceptedLimits :
        ~isPaused =>
            LET r == setMaxConcurrent(Cur, n)
                started == Dispatched(queue, r)
                k == SlotsToFill(queue, n)
            IN r.ovf \/ /\ ~r.threw
                        /\ r.maxConcurrent = n
                        /\ RunningUntouched(r)
                        /\ FirstQueued(queue, k) \subseteq started
                        /\ started = FirstQueued(queue, Cardinality(started))
                        /\ (\A id \in started : id \in Ids(r.queue)) => Cardinality(started) = k
                        /\ Queued(r.queue) = 0 \/ Running(r.queue) >= n
                        /\ n <= Running(queue) => (started = {} /\ r.queue = queue)

\* the last step was a setMaxConcurrent that started waiting tasks (it
\* announced tasks as running and nothing else) beside a task already running
C13_Witness ==
    /\ Broadcasts(out) # {}
    /\ \A e \in Broadcasts(out) : e.kind = "task-update" /\ e.status = "running"
    /\ \E t \in Tasks(queue) : t.status = "running" /\ TaskUpdate(t) \notin out
    /\ Running(queue) = maxConcurrent

(***************************************************************************)
(* C14: setMaxConcurrent(n) with n < 1 or n > 10 is rejected with an error *)
(* and changes nothing: the manager's maxConcurrent, the live queue, the   *)
(* store, the pause flag and the persisted maxConcurrentTransfers setting  *)
(* are as before the call, whether the call arrives directly or through    *)
(* the config:save handler.                                                *)
(***************************************************************************)
RejectedLimits == ConcurrentInputs \ AcceptedLimits

RejectedUnchanged(r) ==
    /\ r.threw
    /\ r.maxConcurrent = maxConcurrent
    /\ r.queue = queue
    /\ r.store = store
    /\ r.isPaused = isPaused
    /\ r.cfgMaxConcurrent = cfgMaxConcurrent
    /\ r.out = {}

C14_DirectRejectedUnchanged ==
    \A n \in RejectedLimits : RejectedUnchanged(setMaxConcurrent(Cur, n))

C14_RejectedChangesNothing ==
    \A n \in RejectedLimits :
        /\ RejectedUnchanged(setMaxConcurrent(Cur, n))
        /\ RejectedUnchanged(configSave(Cur, n))

(***************************************************************************)
(* C15: the number of transfer subprocesses alive at the same time never   *)
(* exceeds maxConcurrent, under any interleaving of dispatch, cancelTask,  *)
(* clearAllTasks and subprocess exit events.                               *)
(***************************************************************************)
RECURSIVE AliveIn(_, _)
AliveIn(p, S) ==
    IF S = {} THEN 0
    ELSE LET id == CHOOSE x \in S : TRUE IN p[id] + AliveIn(p, S \ {id})

AliveProcesses == AliveIn(procs, TaskIds)

C15_AliveAtMostLimit == AliveProcesses <= maxConcurrent

(***************************************************************************)
(* C16: every change of a task's status (to queued on creation, to running *)
(* on dispatch, to completed, to failed, including a failure that is then  *)
(* auto-retried, and to cancelled by cancelTask or clearQueue) comes in    *)
(* the same step with a task-update broadcast that carries the task with   *)
(* its new status.                                                         *)
(***************************************************************************)
Statuses == {"queued", "running", "completed", "failed", "cancelled"}

\* the task id is held with status s, in the live queue or in the store
HasStatus(q, st, id, s) == \E t \in Tasks(q) \cup Tasks(st) : t.id = id /\ t.status = s

TaskUpdateSent(events, id, s) ==
    \E e \in events : e.kind = "task-update" /\ e.id = id /\ e.status = s

StatusChangeBroadcast(S) ==
    \A id \in TaskIds : \A s \in S :
        (~HasStatus(queue, store, id, s) /\ HasStatus(queue', store', id, s))
            => TaskUpdateSent(out', id, s)

C16_StatusChangeBroadcast == [][StatusChangeBroadcast(Statuses)]_vars

\* the part of C16 that the code keeps: every status but failed
C16_OtherStatusesBroadcast == [][StatusChangeBroadcast(Statuses \ {"failed"})]_vars

(***************************************************************************)
(* C17: every task failure, final or followed by an auto-retry, leaves the *)
(* failed task's stored record with a non-empty error string and appends a *)
(* log entry of type error that carries the task id.                       *)
(***************************************************************************)
\* the part of C17 that the code keeps: the stored record of a failure has
\* an error string
C17_FailureHasErrorString ==
    [][\A f \in NewlyFailed(store, store') : f.error # ""]_vars

C17_FailureLogged ==
    [][\A f \in NewlyFailed(store, store') :
          /\ f.error # ""
          /\ LogUpdate("error", f.id) \in out']_vars

(***************************************************************************)
(* C18: for every dispatched task, a subprocess spawn failure, a non-zero  *)
(* exit, or an exception thrown while the task is set up (an unsupported   *)
(* task type included) ends in the failure path: the task leaves status    *)
(* running and is stored as failed (and possibly auto-retried); it never   *)
(* stays running forever and no exception escapes executeTask or           *)
(* TaskExecutor.execute.                                                   *)
(***************************************************************************)
\* the exit codes a subprocess reports; a spawn failure rejects as a non-zero
\* exit does
ExitCodes == {0, 1}

\* TaskExecutor.execute: the whole body runs inside try/catch, and the catch
\* returns a result with success false
execute(task, code) ==
    LET raised == IF RunsExternalTool(task) THEN code # 0 ELSE TRUE
    IN [success |-> ~raised, errorMessage |-> IF raised THEN "err" ELSE "", threw |-> FALSE]

StoredFailed(st, id) ==
    \E t \in Tasks(st) : t.id = id /\ t.status = "failed" /\ t.error # ""

Active(ts) == CountStatus(ts, "running") + CountStatus(ts, "queued")

\* the part of C19 that the code keeps: the ceiling holds while fewer than
\* MAX_TASKS of the stored records are active
C19_CeilingWhileActiveBelow ==
    [][(nextId' = nextId + 1 /\ Active(store') < MAX_TASKS) => Len(store') <= MAX_TASKS]_vars

C19_StoreAtMostCeiling == [][nextId' = nextId + 1 => Len(store') <= MAX_TASKS]_vars

(***************************************************************************)
(* C20: after any sequence of addLog, addLogs, clearAllLogs and            *)
(* clearLogsByTask calls the log buffer holds at most MAX_LOGS entries,    *)
(* and they are the most recently appended surviving entries in append     *)
(* order (overflow evicts the oldest entries first); log entries are never *)
(* written to the durable task store.                                      *)
(***************************************************************************)
\* the last n entries of ls
LastOf(ls, n) == SubSeq(ls, Len(ls) - n + 1, Len(ls))

C20_LogBufferBounded ==
    /\ [](/\ Len(logs) <= MAX_LOGS
          /\ \A i \in 1..(Len(logs) - 1) : logs[i].id < logs[i + 1].id)
    /\ [][/\ store' = store
          /\ nextId' > nextId =>
                \* k entries were appended: they are the newest of the buffer,
                \* in the order of the call, behind the newest of the old ones
                LET k == nextId' - nextId
                    kept == Min(Len(logs), MAX_LOGS - k)
                IN /\ Len(logs') = kept + k
                   /\ \A i \in 1..k : logs'[kept + i].id = nextId + i - 1
                   /\ SubSeq(logs', 1, kept) = LastOf(logs, kept)
          /\ nextId' = nextId =>
                \* a clear call: what survives keeps its order
                \/ logs' = <<>>
                \/ \E taskId \in LogTaskIds :
                       logs' = SelectSeq(logs, LAMBDA l : l.taskId # taskId)]_vars

\* the buffer is full, the last call appended an entry and evicted the oldest
C20_Witness ==
    /\ Len(logs) = MAX_LOGS
    /\ nextId > 1
    /\ logs[MAX_LOGS].id = nextId - 1
    /\ logs[1].id > 1 - MAX_LOGS

(***************************************************************************)
(* C21: parseLine and processLine never raise, whatever the line; a line   *)
(* that is not valid JSON, or is JSON that is not an object with a stats   *)
(* field or with level and msg fields (null, a number, a level that is not *)
(* a string) is returned as plain text, and the parser state stays usable  *)
(* for the next line.                                                      *)
(***************************************************************************)
\* a JSON object with a stats field, or with a string level and a msg field
StatsOrLog(line) ==
    /\ line.kind = "object"
    /\ \/ line.stats # "absent"
       \/ IsString(line.level) /\ line.msg # "absent"

GoodStats == [kind |-> "object", stats |-> "object", level |-> "absent", msg |-> "absent"]
GoodLog == [kind |-> "object", stats |-> "absent", level |-> "error", msg |-> "info"]

Usable(p) ==
    LET s == parseLine(p, GoodStats)
        l == parseLine(p, GoodLog)
    IN /\ s.type = "stats" /\ s.parser.lastProgress = "object"
       /\ l.type = "log" /\ l.parser.errorMessages = Append(p.errorMessages, MsgOf(GoodLog))

C21_ParserNeverRaises ==
    \A line \in Lines :
        LET r == parseLine(parser, line)
        IN /\ ~r.threw
           /\ Usable(r.parser)
           /\ ~StatsOrLog(line) =>
                 /\ r.type = "text"
                 /\ r.rawText = IF line.kind = "blank" THEN <<>> ELSE <<line>>
                 /\ r.parser = parser
           /\ \A source \in Sources :
                 LET q == processLine(parser, line, source)
                 IN ~q.threw /\ Usable(q.parser)

\* the parser has seen progress and has collected from stderr, as plain
\* text, a log entry whose level is not a string
C21_Witness ==
    /\ parser.lastProgress # "absent"
    /\ \E i \in 1..Len(parser.errorMessages) :
          /\ parser.errorMessages[i].line.kind = "object"
          /\ parser.errorMessages[i].line.level = "number"
          /\ parser.errorMessages[i].line.msg = "info"

(***************************************************************************)
(* C22: while the broadcast target is unset, destroyed, or raises on send, *)
(* every notify call returns without raising and sends nothing, and the    *)
(* transition that issued it ends with the queue, the store, the           *)
(* subprocesses and the thrown error it has with the target available.     *)
(***************************************************************************)
Unavailable == Targets \ {"ready"}

\* what reached the renderer: the payloads of the four notify calls
Sent(events) ==
    {e \in events : e.kind \in {"task-update", "progress-update", "log", "transferring-update"}}

SameTransition(a, b) ==
    /\ a.queue = b.queue
    /\ a.store = b.store
    /\ a.procs = b.procs
    /\ a.activeProcesses = b.activeProcesses
    /\ a.nextId = b.nextId
    /\ a.isPaused = b.isPaused
    /\ a.threw = b.threw
    /\ a.out \ Sent(a.out) = b.out \ Sent(b.out)

\* the results of every transition that notifies, from m
Transitions(m) ==
    <<[type \in TaskTypes |-> IF m.nextId <= m.idLimit THEN addTask(m, type, "remote") ELSE m],
      [id \in TaskIds |-> cancelTask(m, id)],
      [id \in TaskIds |-> retryTask(m, id)],
      [id \in TaskIds |-> IF m.procs[id] > 0 THEN handleCompletion(Closed(m, id), id) ELSE m],
      [id \in TaskIds |-> IF m.procs[id] > 0 THEN handleFailure(Closed(m, id), id) ELSE m],
      [id \in TaskIds |-> [p \in ProgressInputs |-> handleProgress(m, id, p[1], p[2], TRUE)]],
      [one \in {1} |-> clearQueue(m)]>>

C22_NotifyCalls ==
    \A t \in Unavailable :
        LET m == [Cur EXCEPT !.target = t]
            task == NewTask(1, "copy", "remote")
        IN \A r \in {notifyTaskUpdate(m, task), notifyProgressUpdate(m, task),
                      notifyLogUpdate(m, LogUpdate("info", task.id)),
                      notifyTransferringFiles(m, task)} :
               r = m

C22_UnavailableTargetHarmless ==
    /\ C22_NotifyCalls
    /\ target \in Unavailable => Sent(out) = {}
    /\ LET ready == Transitions([Cur EXCEPT !.target = "ready"])
       IN \A t \in Unavailable :
              LET un == Transitions([Cur EXCEPT !.target = t])
              IN \A i \in 1..Len(ready) :
                     \A x \in DOMAIN ready[i] :
                         IF i = 6
                         THEN \A p \in ProgressInputs :
                                  /\ SameTransition(un[i][x][p], ready[i][x][p])
                                  /\ Sent(un[i][x][p].out) = {}
                         ELSE /\ SameTransition(un[i][x], ready[i][x])
                              /\ Sent(un[i][x].out) = {}

\* a window that raises on send, a task completed and stored, and a running
\* task whose completion now broadcasts nothing and is stored all the same
C22_Witness ==
    /\ target = "raises"
    /\ out = {}
    /\ \E i \in 1..Len(store) : store[i].status = "completed"
    /\ \E i \in 1..Len(queue) :
           /\ queue[i].status = "running"
           /\ procs[queue[i].id] > 0
           /\ LET r == handleCompletion(Closed(Cur, queue[i].id), queue[i].id)
                  ok == handleCompletion(Closed([Cur EXCEPT !.target = "ready"], queue[i].id), queue[i].id)
              IN /\ StoreHas(r.store, queue[i].id)
                 /\ Sent(r.out) = {}
                 /\ Sent(ok.out) # {}
                 /\ ~r.threw

(***************************************************************************)
(* C23: a copy or move task is executed with the skip-existing retry       *)
(* primitive exactly when its retryCount is above 0 and with the normal    *)
(* copy or move exactly when it is 0; a delete task always takes the       *)
(* delete path; every copy or move task made by auto-retry or retryTask    *)
(* runs in skip-existing mode.                                             *)
(***************************************************************************)
Executed == {e \in out : e.kind = "execute"}

\* made by retryTaskInternal or retryTask: not the first task of its lineage
MadeByRetry(t) == t.root # t.id

C23_ModeByRetryCount ==
    \A e \in Executed :
        /\ e.id \in Ids(queue)
        /\ LET t == Find(queue, e.id)
           IN /\ t.type \in {"copy", "move"} =>
                     /\ (e.status = "retryTransfer") <=> (t.retryCount > 0)
                     /\ (e.status = t.type) <=> (t.retryCount = 0)
              /\ t.type = "delete" => e.status \in {"fs", "purge"}

LiveStatuses == {"queued", "running"}

TerminalStatuses == {"completed", "failed", "cancelled"}

\* the half about the store
C24_StoreHoldsTerminal ==
    \A i \in 1..Len(store) :
        /\ store[i].status \in TerminalStatuses
        /\ store[i].status \notin LiveStatuses
        /\ store[i].completedAt > 0

C24_QueueLiveStoreTerminal ==
    /\ \A i \in 1..Len(queue) : queue[i].status \in LiveStatuses
    /\ C24_StoreHoldsTerminal

(***************************************************************************)
(* C25: a record in the store is never changed by an operation of the      *)
(* manager: over every step each stored record is still there as it was,   *)
(* status, error, progress and retryCount included, or it was deleted;     *)
(* retryTask and auto-retry leave the old record as it was.                *)
(***************************************************************************)
Records(ts) == {ts[i] : i \in 1..Len(ts)}

CountId(ts, id) == Len(SelectSeq(ts, LAMBDA t : t.id = id))

\* r, a record of the store before, is in the store after as it was, or
\* the store after holds fewer records of its id
KeptOrDeleted(before, after, r) ==
    \/ r \in Records(after)
    \/ CountId(after, r.id) < CountId(before, r.id)

StoredRecordsKept == \A r \in Records(store) : KeptOrDeleted(store, store', r)

\* a retry leaves the store as it is
RetryLeavesStore ==
    \A id \in TaskIds :
        LET r == retryTask(Cur, id) IN ~r.ovf => r.store = store

C25_StoredRecordsImmutable == [](RetryLeavesStore) /\ [][StoredRecordsKept]_vars

\* a failed record and the task a retry made from it, side by side
C25_Witness ==
    \E r \in Records(store) :
        /\ r.status = "failed"
        /\ r.error # ""
        /\ \E i \in 1..Len(queue) :
               /\ queue[i].root = r.root
               /\ queue[i].id # r.id
               /\ queue[i].retryCount = r.retryCount + 1

(***************************************************************************)
(* C26: cancelTask on a running task delivers a termination signal to the  *)
(* subprocess doing the work of that task, whatever the task type, and at  *)
(* most once.                                                              *)
(***************************************************************************)
\* the running tasks of the live queue that have a subprocess alive
RunningWithProcess == {id \in Ids(queue) : Find(queue, id).status = "running" /\ procs[id] > 0}

\* cancelTask(id) signals the process of id and forgets it, so that no
\* second signal can follow
CancelSignals(id) ==
    LET r == cancelTask(Cur, id)
    IN /\ Signal(id) \in r.out
       /\ id \notin r.activeProcesses

\* the tasks started with copy, move or retryTransfer
C26_TransfersSignalled ==
    \A id \in RunningWithProcess : Find(queue, id).type # "delete" => CancelSignals(id)

C26_CancelSignalsRunning == \A id \in RunningWithProcess : CancelSignals(id)

(***************************************************************************)
(* C27: when the write to the task store raises in a terminal transition,  *)
(* the live queue is not corrupted: its tasks are still queued or running, *)
(* a task whose transfer succeeded is not made a failed task nor run again *)
(* as a retry, and the queued tasks are still dispatched into free slots.  *)
(***************************************************************************)
\* the end of a successful transfer of id while the store fails as f
SucceededUnder(id, f) == Resolved(Closed([Cur EXCEPT !.storeFault = f], id), id)

\* in r the task id is failed, in the queue or in the store
MadeFailed(r, id) ==
    \/ \E t \in Records(r.queue) : t.id = id /\ t.status = "failed"
    \/ \E t \in Records(r.store) : t.id = id /\ t.status = "failed"

\* r holds a retry of task that the queue did not hold before
RunAgain(r, task) ==
    \E t \in Records(r.queue) :
        /\ t.id \notin Ids(queue)
        /\ t.root = task.root
        /\ t.retryCount = task.retryCount + 1

\* nothing queued is left waiting next to a free slot
NothingLeftWaiting(r) == (~r.isPaused /\ AvailableSlots(r) > 0) => ByStatus(r.queue, "queued") = <<>>

C27_SuccessKeptUnderStoreFault ==
    \A id \in RunningWithProcess, f \in StoreFaults \ {"no"} :
        LET r == SucceededUnder(id, f)
        IN /\ ~MadeFailed(r, id)
           /\ ~RunAgain(r, Find(queue, id))
           /\ NothingLeftWaiting(r)

C27_QueueSurvivesStoreFault ==
    /\ \A t \in Records(queue) : t.status \in LiveStatuses
    /\ C27_SuccessKeptUnderStoreFault

(***************************************************************************)
(* C28: a failed task is auto-retried exactly when autoRetry is on and its *)
(* retryCount is below the configured retryAttempts, for every configured  *)
(* value, 0 included: with retryAttempts 0 there is no auto-retry and no   *)
(* manual retry is accepted.                                               *)
(***************************************************************************)
\* the failure of the running task id
FailureOf(id) == handleFailure(Closed(Cur, id), id)

AutoRetriedIffBelow(limit) ==
    \A id \in RunningWithProcess :
        LET task == Find(queue, id)
            r == FailureOf(id)
        IN ~r.ovf => (RunAgain(r, task) <=> (autoRetry /\ task.retryCount < limit))

\* the same with the limit the code computes
C28_AutoRetryBelowEffectiveLimit == AutoRetriedIffBelow(MaxRetries(retryAttempts))

C28_AutoRetryBelowConfiguredLimit ==
    /\ AutoRetriedIffBelow(retryAttempts)
    /\ retryAttempts = 0 => \A id \in TaskIds : retryTask(Cur, id).threw

(***************************************************************************)
(* C29: the limit the manager works with is always within 1..10: when the  *)
(* manager is constructed from the persisted configuration, whatever it    *)
(* holds, and after every setMaxConcurrent call.                           *)
(***************************************************************************)
\* after a setMaxConcurrent call, accepted or rejected
C29_InRangeAfterSet ==
    \A value \in ConcurrentInputs :
        ConcurrentInRange(maxConcurrent) => ConcurrentInRange(setMaxConcurrent(Cur, value).maxConcurrent)

C29_MaxConcurrentInRange ==
    /\ MIN_CONCURRENT <= maxConcurrent
    /\ maxConcurrent <= MAX_CONCURRENT

(***************************************************************************)
(* C30: clearAllTasks cancels the running tasks first: every task running  *)
(* in the live queue has a termination signal sent to its subprocess       *)
(* before the queue and the store are emptied, so that no subprocess is    *)
(* left running for a task the manager no longer holds.                    *)
(***************************************************************************)
\* the emptying itself, which does take place
C30_ClearAllEmpties ==
    LET r == clearAllTasks(Cur) IN r.queue = <<>> /\ r.store = <<>>

C30_ClearAllSignalsRunning ==
    LET r == clearAllTasks(Cur)
    IN /\ C30_ClearAllEmpties
       /\ \A id \in RunningWithProcess : Signal(id) \in r.out

(***************************************************************************)
(* C31: clearCompletedTasks, clearFailedTasks and clearHistory delete      *)
(* exactly the stored records that are completed, failed, and of any       *)
(* terminal status, and leave the live queue, the pause flag,              *)
(* maxConcurrent and the subprocesses as they were, starting no task;      *)
(* clearHistory writes one info log entry besides.                         *)
(***************************************************************************)
\* r is m with the records of the statuses gone from the store and nothing
\* else of the manager touched
ClearsOnly(m, r, statuses) ==
    /\ r.store = SelectSeq(m.store, LAMBDA t : t.status \notin statuses)
    /\ r.queue = m.queue
    /\ r.isPaused = m.isPaused
    /\ r.maxConcurrent = m.maxConcurrent
    /\ r.cfgMaxConcurrent = m.cfgMaxConcurrent
    /\ r.procs = m.procs
    /\ r.fsOps = m.fsOps
    /\ r.activeProcesses = m.activeProcesses
    /\ r.nextId = m.nextId
    /\ ~r.threw
    /\ r.out \ Sent(r.out) = {}

ClearOperationsFrame ==
    /\ ClearsOnly(Cur, clearCompletedTasks(Cur), {"completed"})
    /\ ClearsOnly(Cur, clearFailedTasks(Cur), {"failed"})
    /\ ClearsOnly(Cur, clearHistory(Cur), TerminalStatuses)

C31_ClearChangesStoreAndLog ==
    /\ ClearOperationsFrame
    /\ clearCompletedTasks(Cur).out = {}
    /\ clearFailedTasks(Cur).out = {}
    /\ clearHistory(Cur).out = {LogUpdate("info", NoTask)}

\* the statement as written: nothing but the store changes
C31_ClearChangesOnlyStore ==
    /\ ClearOperationsFrame
    /\ clearCompletedTasks(Cur).out = {}
    /\ clearFailedTasks(Cur).out = {}
    /\ clearHistory(Cur).out = {}

\* a completed and a failed record in the store next to a running task:
\* each operation has something to delete and something to leave
C31_Witness ==
    /\ \A st \in {"completed", "failed"} : \E t \in Records(store) : t.status = st
    /\ \E t \in Records(queue) : t.status = "running" /\ procs[t.id] > 0
    /\ Len(clearCompletedTasks(Cur).store) < Len(store)
    /\ Len(clearFailedTasks(Cur).store) < Len(store)
    /\ clearHistory(Cur).store = <<>>
    /\ clearHistory(Cur).queue = queue

(***************************************************************************)
(* C32: when addTask pushes the store over the ceiling, the eviction       *)
(* removes only records that are neither running nor queued, keeps every   *)
(* running and queued record, and removes the oldest first by completedAt, *)
(* or createdAt where completedAt is unset: no evicted record has a        *)
(* strictly newer key than a kept terminal record.                         *)
(***************************************************************************)
EvictionKey(t) == IF t.completedAt # 0 THEN t.completedAt ELSE t.createdAt

IsActive(t) == t.status \in {"running", "queued"}

Actives(ts) == SelectSeq(ts, IsActive)

Terminals(ts) == Records(SelectSeq(ts, LAMBDA t : ~IsActive(t)))

\* what addTask(task) evicts: the terminal records of the store, and the
\* task itself, that the store no longer holds afterwards
Evicted(tasks, task) == Terminals(Append(tasks, task)) \ Terminals(StoreAddTask(tasks, task))

EvictsOldestTerminal(tasks, task) ==
    LET after == StoreAddTask(tasks, task)
    IN /\ Actives(after) = Actives(Append(tasks, task))
       /\ Terminals(after) \subseteq Terminals(Append(tasks, task))
       /\ \A e \in Evicted(tasks, task) :
              \A k \in Terminals(after) : EvictionKey(e) <= EvictionKey(k)

\* the records addTask may be handed next
NextRecords ==
    {[StoredTask(nextId, status) EXCEPT !.createdAt = stamp[1], !.completedAt = stamp[2]] :
         status \in {"running", "completed", "failed"}, stamp \in StampInputs}

C32_EvictionOldestTerminalFirst == \A task \in NextRecords : EvictsOldestTerminal(store, task)

\* the store at the ceiling with a terminal record in it, and a record with
\* an older key coming in: the newcomer itself is evicted, the other kept
C32_Witness ==
    /\ Len(store) = MAX_TASKS
    /\ \E k \in Records(store) : ~IsActive(k) /\ EvictionKey(k) = MaxStamp
    /\ \E task \in NextRecords :
           /\ ~IsActive(task)
           /\ EvictionKey(task) = 1
           /\ task.completedAt = 0
           /\ Evicted(store, task) = {task}

(***************************************************************************)
(* C33: whatever the parser holds, a processLine call appends to the       *)
(* error list, at its end, the msg of a log record whose level is error    *)
(* (from either stream) or a non-empty plain-text line received on stderr, *)
(* and leaves the list as it is for stdout plain text, for a log record of *)
(* another level and for a progress record; the list only ever becomes     *)
(* empty together with the last progress record, by reset().               *)
(***************************************************************************)
ProgressRecord(line) == line.kind = "object" /\ Truthy(line.stats)

LogRecord(line) ==
    /\ line.kind = "object"
    /\ ~Truthy(line.stats)
    /\ IsString(line.level)
    /\ Truthy(line.msg)

PlainText(line) == ~ProgressRecord(line) /\ ~LogRecord(line)

\* what a line received on a stream adds to the error list
Accumulated(line, source) ==
    IF LogRecord(line) /\ line.level = "error" THEN <<MsgOf(line)>>
    ELSE IF PlainText(line) /\ line.kind # "blank" /\ source = "stderr"
    THEN <<RawTextOf(line)>>
    ELSE <<>>

AccumulatesErrors ==
    \A line \in Lines : \A source \in Sources :
        processLine(parser, line, source).parser.errorMessages
            = parser.errorMessages \o Accumulated(line, source)

ResetEmpties ==
    /\ NewParser.errorMessages = <<>>
    /\ NewParser.lastProgress = "absent"
    /\ (parser.errorMessages # <<>> /\ parser'.errorMessages = <<>>) => parser' = NewParser

C33_ErrorListAccumulates == []AccumulatesErrors /\ [][ResetEmpties]_vars

\* the parser holds a progress record and the msg of an error record; a
\* plain-text line on stderr is appended after it, the same line on stdout
\* and an info record are not
C33_Witness ==
    /\ parser.lastProgress # "absent"
    /\ Len(parser.errorMessages) = 1
    /\ parser.errorMessages[1].text = "msg"
    /\ \E line \in Lines :
           /\ line.kind = "notjson"
           /\ processLine(parser, line, "stderr").parser.errorMessages
                  = <<parser.errorMessages[1], RawTextOf(line)>>
           /\ processLine(parser, line, "stdout").parser = parser
    /\ \E line \in Lines :
           /\ LogRecord(line) /\ line.level = "info"
           /\ processLine(parser, line, "stderr").parser = parser

(***************************************************************************)
(* C34: once a stream has been delivered whole, in chunks of any sizes,    *)
(* the callbacks invoked, in order, and the error list are those the       *)
(* parser produces when it is fed the newline-delimited lines of the       *)
(* output one by one, which is what one chunk holding everything gives.    *)
(***************************************************************************)
LineByLine(output, source) == processData(NewParser, <<>>, output, source)

C34_ChunkingIndependent ==
    pipe.pending = <<>> =>
        /\ pipe.events = LineByLine(pipe.written, pipe.source).events
        /\ parser.errorMessages
               = LineByLine(pipe.written, pipe.source).parser.errorMessages

(***************************************************************************)
(* C35: a task whose type is not copy, move or delete is never handed to   *)
(* the external tool, on no attempt of its retry lineage: no such task of  *)
(* the live queue is running, has a subprocess or a tracked process, and   *)
(* every such task of the store is failed.                                 *)
(***************************************************************************)
SupportedTypes == {"copy", "move", "delete"}

Unsupported(ts) == Records(SelectSeq(ts, LAMBDA t : t.type \notin SupportedTypes))

C35_UnsupportedTypeNeverRuns ==
    /\ \A t \in Unsupported(queue) :
           /\ t.status # "running"
           /\ procs[t.id] = 0
           /\ t.id \notin activeProcesses
    /\ \A t \in Unsupported(store) : t.status \in {"failed", "cancelled"}

(***************************************************************************)
(* C36: the scheduler is work-conserving: after every manager operation    *)
(* and every subprocess event, if the queue is not paused then either no   *)
(* task of the live queue is queued or at least maxConcurrent tasks are    *)
(* running.                                                                *)
(***************************************************************************)
C36_WorkConserving ==
    ~isPaused => \/ CountStatus(queue, "queued") = 0
                 \/ CountStatus(queue, "running") >= maxConcurrent

\* dispatch is on, every slot is taken by a task with a subprocess and a
\* task waits behind them
C36_Witness ==
    /\ ~isPaused
    /\ CountStatus(queue, "queued") > 0
    /\ CountStatus(queue, "running") = maxConcurrent
    /\ \A i \in 1..Len(queue) : queue[i].status = "running" => procs[queue[i].id] > 0

(***************************************************************************)
(* C37: if every started subprocess eventually exits and the queue is not  *)
(* left paused forever, every task of the live queue eventually is out of  *)
(* it with a terminal record in the store, and no task of an auto-retry    *)
(* lineage is a later attempt than attempt retryAttempts + 1.              *)
(***************************************************************************)
InQueue(id) == id \in Ids(queue)

Ended(id) ==
    /\ ~InQueue(id)
    /\ \E t \in Records(store) : t.id = id /\ t.status \in TerminalStatuses

EveryTaskEnds == \A id \in TaskIds : InQueue(id) ~> Ended(id)

LineageBounded ==
    \A t \in Records(queue) \cup Records(store) : t.retryCount + 1 <= retryAttempts + 1

C37_EveryTaskEndsLineageBounded == EveryTaskEnds /\ []LineageBounded

(***************************************************************************)
(* C38: with retryAttempts at least 1 and constant, every task of the live *)
(* queue and of the store has a retryCount from 0 to retryAttempts, and    *)
(* neither a failure (auto-retry) nor retryTask is about to make a task    *)
(* with a retryCount above retryAttempts.                                  *)
(***************************************************************************)
RetryCountInRange(ts) == \A t \in Records(ts) : t.retryCount \in 0..retryAttempts

AfterRetryInRange ==
    \A taskId \in TaskIds :
        LET manual == retryTask(Cur, taskId)
            auto == handleFailure(Cur, taskId)
        IN \A r \in {manual, auto} :
               \A t \in Records(r.queue) \cup Records(r.store) :
                   t.retryCount \in 0..retryAttempts

C38_RetryCountWithinLimit ==
    /\ retryAttempts >= 1
    /\ RetryCountInRange(queue)
    /\ RetryCountInRange(store)
    /\ AfterRetryInRange

\* a failed task at the limit is stored, made by an auto-retry of a stored
\* failed task; retryTask on it is rejected and makes no task
C38_Witness ==
    \E t \in Records(store) :
        /\ t.status = "failed"
        /\ t.retryCount = retryAttempts
        /\ \E o \in Records(store) : o.status = "failed" /\ o.retryCount = t.retryCount - 1
        /\ retryTask(Cur, t.id).threw
        /\ retryTask(Cur, t.id).queue = queue

(***************************************************************************)
(* C39: a progress record from a subprocess whose task is no longer in the *)
(* live queue (cancelled, cleared or ended) is ignored: handleProgress     *)
(* sends no progress-update and no transferring-files broadcast and leaves *)
(* the store and the live queue as they are.                               *)
(***************************************************************************)
LeftQueueAlive(taskId) == procs[taskId] > 0 /\ taskId \notin Ids(queue)

C39_LateProgressIgnored ==
    \A taskId \in TaskIds :
        LeftQueueAlive(taskId) =>
            \A p \in ProgressInputs, transferring \in BOOLEAN :
                LET r == handleProgress(Cur, taskId, p[1], p[2], transferring)
                IN /\ r.out = {}
                   /\ r.store = store
                   /\ r.queue = queue
                   /\ ~r.threw

\* the subprocess of a cancelled task, stored as cancelled, is still alive
\* while another task runs in the live queue
C39_Witness ==
    \E taskId \in TaskIds :
        /\ LeftQueueAlive(taskId)
        /\ \E t \in Records(store) : t.id = taskId /\ t.status = "cancelled"
        /\ CountStatus(queue, "running") > 0

====
